---- MODULE Spec2Model ----
(***************************************************************************)
(* A model of the simulation core of the falling-block game: the static    *)
(* shape and wall-kick tables, the Board, the 7-bag randomizer, Scoring    *)
(* and the Game orchestrator.                                               *)
(*                                                                          *)
(* Conventions.  A nullable value of the source (T | null, an optional      *)
(* argument) is a sequence of length 0 (null / absent) or 1.  Grid rows and *)
(* cells are indexed from 1 in the model and from 0 in the source, so the   *)
(* source's grid[y][x] is grid[y + 1][x + 1].  Time is counted in quarter   *)
(* seconds: a tick with argument dq has deltaSeconds = dq / 4; timers that  *)
(* the source keeps in seconds or milliseconds are kept in milliseconds,    *)
(* and the fall accumulator in millionths of a row.                         *)
(***************************************************************************)
EXTENDS Integers, Sequences, FiniteSets, TLC

P(x, y) == [x |-> x, y |-> y]

Some(v) == <<v>>

None == <<>>

(* ------------------------------------------------------------------ *)
(* constants.ts                                                        *)
(* ------------------------------------------------------------------ *)
BOARD_WIDTH == 10

BOARD_VISIBLE_HEIGHT == 10

BOARD_HIDDEN_ROWS == 2

BOARD_TOTAL_HEIGHT == BOARD_VISIBLE_HEIGHT + BOARD_HIDDEN_ROWS

PIECE_TYPES == <<"I", "O", "T", "S", "Z", "J", "L">>

PieceTypeSet == {PIECE_TYPES[i] : i \in 1..Len(PIECE_TYPES)}

SPAWN_POSITION ==
  [ I |-> P(3, -1), O |-> P(4, 0), T |-> P(3, 0), J |-> P(3, 0),
    L |-> P(3, 0), S |-> P(3, 0), Z |-> P(3, 0) ]

TETROMINO_SHAPES ==
  [ I |-> <<<<P(0, 1), P(1, 1), P(2, 1), P(3, 1)>>,
            <<P(2, 0), P(2, 1), P(2, 2), P(2, 3)>>,
            <<P(0, 2), P(1, 2), P(2, 2), P(3, 2)>>,
            <<P(1, 0), P(1, 1), P(1, 2), P(1, 3)>>>>,
    O |-> <<<<P(1, 0), P(2, 0), P(1, 1), P(2, 1)>>,
            <<P(1, 0), P(2, 0), P(1, 1), P(2, 1)>>,
            <<P(1, 0), P(2, 0), P(1, 1), P(2, 1)>>,
            <<P(1, 0), P(2, 0), P(1, 1), P(2, 1)>>>>,
    T |-> <<<<P(1, 0), P(0, 1), P(1, 1), P(2, 1)>>,
            <<P(1, 0), P(1, 1), P(2, 1), P(1, 2)>>,
            <<P(0, 1), P(1, 1), P(2, 1), P(1, 2)>>,
            <<P(1, 0), P(0, 1), P(1, 1), P(1, 2)>>>>,
    J |-> <<<<P(0, 0), P(0, 1), P(1, 1), P(2, 1)>>,
            <<P(1, 0), P(2, 0), P(1, 1), P(1, 2)>>,
            <<P(0, 1), P(1, 1), P(2, 1), P(2, 2)>>,
            <<P(1, 0), P(1, 1), P(0, 2), P(1, 2)>>>>,
    L |-> <<<<P(2, 0), P(0, 1), P(1, 1), P(2, 1)>>,
            <<P(1, 0), P(1, 1), P(1, 2), P(2, 2)>>,
            <<P(0, 1), P(1, 1), P(2, 1), P(0, 2)>>,
            <<P(0, 0), P(1, 0), P(1, 1), P(1, 2)>>>>,
    S |-> <<<<P(1, 0), P(2, 0), P(0, 1), P(1, 1)>>,
            <<P(1, 0), P(1, 1), P(2, 1), P(2, 2)>>,
            <<P(1, 1), P(2, 1), P(0, 2), P(1, 2)>>,
            <<P(0, 0), P(0, 1), P(1, 1), P(1, 2)>>>>,
    Z |-> <<<<P(0, 0), P(1, 0), P(1, 1), P(2, 1)>>,
            <<P(2, 0), P(1, 1), P(2, 1), P(1, 2)>>,
            <<P(0, 1), P(1, 1), P(1, 2), P(2, 2)>>,
            <<P(1, 0), P(0, 1), P(1, 1), P(0, 2)>>>> ]

standardTests ==
  <<0, 1>> :> <<P(0, 0), P(-1, 0), P(-1, 1), P(0, -2), P(-1, -2)>>
  @@ <<1, 0>> :> <<P(0, 0), P(1, 0), P(1, -1), P(0, 2), P(1, 2)>>
  @@ <<1, 2>> :> <<P(0, 0), P(1, 0), P(1, -1), P(0, 2), P(1, 2)>>
  @@ <<2, 1>> :> <<P(0, 0), P(-1, 0), P(-1, 1), P(0, -2), P(-1, -2)>>
  @@ <<2, 3>> :> <<P(0, 0), P(1, 0), P(1, 1), P(0, -2), P(1, -2)>>
  @@ <<3, 2>> :> <<P(0, 0), P(-1, 0), P(-1, -1), P(0, 2), P(-1, 2)>>
  @@ <<3, 0>> :> <<P(0, 0), P(-1, 0), P(-1, -1), P(0, 2), P(-1, 2)>>
  @@ <<0, 3>> :> <<P(0, 0), P(1, 0), P(1, 1), P(0, -2), P(1, -2)>>

iPieceTests ==
  <<0, 1>> :> <<P(0, 0), P(-2, 0), P(1, 0), P(-2, -1), P(1, 2)>>
  @@ <<1, 0>> :> <<P(0, 0), P(2, 0), P(-1, 0), P(2, 1), P(-1, -2)>>
  @@ <<1, 2>> :> <<P(0, 0), P(-1, 0), P(2, 0), P(-1, 2), P(2, -1)>>
  @@ <<2, 1>> :> <<P(0, 0), P(1, 0), P(-2, 0), P(1, -2), P(-2, 1)>>
  @@ <<2, 3>> :> <<P(0, 0), P(2, 0), P(-1, 0), P(2, 1), P(-1, -2)>>
  @@ <<3, 2>> :> <<P(0, 0), P(-2, 0), P(1, 0), P(-2, -1), P(1, 2)>>
  @@ <<3, 0>> :> <<P(0, 0), P(1, 0), P(-2, 0), P(1, -2), P(-2, 1)>>
  @@ <<0, 3>> :> <<P(0, 0), P(-1, 0), P(2, 0), P(-1, 2), P(2, -1)>>

oPieceTests ==
  <<0, 1>> :> <<P(0, 0)>> @@ <<1, 0>> :> <<P(0, 0)>>
  @@ <<1, 2>> :> <<P(0, 0)>> @@ <<2, 1>> :> <<P(0, 0)>>
  @@ <<2, 3>> :> <<P(0, 0)>> @@ <<3, 2>> :> <<P(0, 0)>>
  @@ <<3, 0>> :> <<P(0, 0)>> @@ <<0, 3>> :> <<P(0, 0)>>

SRS_KICK_TABLE ==
  [ I |-> iPieceTests, O |-> oPieceTests, T |-> standardTests,
    J |-> standardTests, L |-> standardTests, S |-> standardTests,
    Z |-> standardTests ]

SCORE_TABLE == (0 :> 0) @@ (1 :> 100) @@ (2 :> 300) @@ (3 :> 500) @@ (4 :> 800)

(* ------------------------------------------------------------------ *)
(* piece.ts                                                            *)
(* ------------------------------------------------------------------ *)
(* rotateRotation ignoring the direction. *)
rotateRotationOneWay(rotation, direction) == (rotation + 1) % 4

rotateRotation(rotation, direction) ==
  IF direction = "clockwise" THEN (rotation + 1) % 4 ELSE (rotation + 3) % 4

(* options: a record of the four optional fields; rndIndex is the value     *)
(* Math.floor(Math.random() * blocks.length) would give if it is drawn.     *)
createActivePiece(type, options, rndIndex) ==
  LET rotation == IF options.rotation = None THEN 0 ELSE options.rotation[1]
      position == IF options.position = None THEN SPAWN_POSITION[type]
                  ELSE options.position[1]
      isSpecial == IF options.isSpecial = None THEN FALSE ELSE options.isSpecial[1]
      blocks == TETROMINO_SHAPES[type][rotation + 1]
      specialBlockIndex ==
        IF isSpecial
        THEN (IF options.specialBlockIndex = None THEN Some(rndIndex)
              ELSE options.specialBlockIndex)
        ELSE None
  IN [ type |-> type, rotation |-> rotation,
       position |-> P(position.x, position.y), blocks |-> blocks,
       isSpecial |-> isSpecial, specialBlockIndex |-> specialBlockIndex ]

translateBlocks(piece, offset) ==
  LET dx == IF offset = None THEN 0 ELSE offset[1].x
      dy == IF offset = None THEN 0 ELSE offset[1].y
  IN [i \in 1..Len(piece.blocks) |->
        P(piece.position.x + piece.blocks[i].x + dx,
          piece.position.y + piece.blocks[i].y + dy)]

(* getKickTests without the kick table. *)
getKickTestsNone(type, current, next) == <<P(0, 0)>>

getKickTests(type, current, next) ==
  LET table == SRS_KICK_TABLE[type]
      key == <<current, next>>
  IN IF key \in DOMAIN table THEN table[key] ELSE <<P(0, 0)>>

rotatePiece(piece, direction) ==
  LET nextRotation == rotateRotation(piece.rotation, direction)
      rotated == createActivePiece(piece.type,
                   [ rotation |-> Some(nextRotation),
                     position |-> Some(piece.position),
                     isSpecial |-> Some(piece.isSpecial),
                     specialBlockIndex |-> piece.specialBlockIndex ], 0)
  IN [ rotated |-> rotated,
       kicks |-> getKickTests(piece.type, piece.rotation, nextRotation) ]

movePiece(piece, delta) ==
  [piece EXCEPT !.position = P(piece.position.x + delta.x,
                               piece.position.y + delta.y)]

(* ------------------------------------------------------------------ *)
(* board.ts                                                            *)
(* ------------------------------------------------------------------ *)
NullCell == [type |-> "null", isSpecial |-> FALSE]

createEmptyRow == [x \in 1..BOARD_WIDTH |-> NullCell]

EmptyGrid == [y \in 1..BOARD_TOTAL_HEIGHT |-> createEmptyRow]

(* isOutOfBounds written as the negation of isInside: above the top counts. *)
isOutOfBoundsAbove(point) ==
  point.x < 0 \/ point.x >= BOARD_WIDTH \/ point.y < 0 \/ point.y >= BOARD_TOTAL_HEIGHT

isOutOfBounds(point) ==
  point.x < 0 \/ point.x >= BOARD_WIDTH \/ point.y >= BOARD_TOTAL_HEIGHT

RECURSIVE hasCollisionFrom(_, _, _)
hasCollisionFrom(grid, cells, i) ==
  IF i > Len(cells) THEN FALSE
  ELSE IF isOutOfBounds(cells[i]) THEN TRUE
  ELSE IF cells[i].y >= 0 /\ grid[cells[i].y + 1][cells[i].x + 1] # NullCell THEN TRUE
  ELSE hasCollisionFrom(grid, cells, i + 1)

hasCollision(grid, piece, offset) ==
  hasCollisionFrom(grid, translateBlocks(piece, offset), 1)

(* isRowFull that takes a special cell for an empty one. *)
isRowFullPlain(row) == \A x \in 1..Len(row) : row[x] # NullCell /\ ~row[x].isSpecial

isRowFull(row) == \A x \in 1..Len(row) : row[x] # NullCell

(* grid.splice(y, 1); grid.unshift(createEmptyRow()), y a source index.     *)
spliceUnshift(grid, y) ==
  [r \in 1..Len(grid) |->
     IF r = 1 THEN createEmptyRow
     ELSE IF r <= y + 1 THEN grid[r - 1]
     ELSE grid[r]]

(* clearFullLines without the y++ after a removal: the row that moved into  *)
(* index y is not examined.                                                 *)
RECURSIVE clearFullLinesFromSkip(_, _, _)
clearFullLinesFromSkip(grid, y, clearedRows) ==
  IF y < 0 THEN [grid |-> grid, clearedRows |-> clearedRows]
  ELSE IF \A x \in 1..Len(grid[y + 1]) : grid[y + 1][x] # NullCell
       THEN clearFullLinesFromSkip(
              [r \in 1..Len(grid) |->
                 IF r = 1 THEN [x \in 1..BOARD_WIDTH |-> NullCell]
                 ELSE IF r <= y + 1 THEN grid[r - 1] ELSE grid[r]],
              y - 1, Append(clearedRows, y))
       ELSE clearFullLinesFromSkip(grid, y - 1, clearedRows)

(* The loop of clearFullLines from source index y on: a full row is removed *)
(* and the same index examined again (y++ then the loop's y--).             *)
RECURSIVE clearFullLinesFrom(_, _, _)
clearFullLinesFrom(grid, y, clearedRows) ==
  IF y < 0 THEN [grid |-> grid, clearedRows |-> clearedRows]
  ELSE IF isRowFull(grid[y + 1])
       THEN clearFullLinesFrom(spliceUnshift(grid, y), y, Append(clearedRows, y))
       ELSE clearFullLinesFrom(grid, y - 1, clearedRows)

(* clearFullLines counting the distinct indices pushed to clearedRows. *)
clearedLinesDistinct(r) ==
  [ grid |-> r.grid,
    linesCleared |-> Cardinality({r.clearedRows[i] : i \in 1..Len(r.clearedRows)}),
    clearedRows |-> r.clearedRows ]

(* The return of clearFullLines, r being what its loop left. *)
clearedLines(r) ==
  [grid |-> r.grid, linesCleared |-> Len(r.clearedRows), clearedRows |-> r.clearedRows]

clearFullLines(grid) == clearedLines(clearFullLinesFrom(grid, Len(grid) - 1, <<>>))

(* The forEach of lockPiece from block index i (1-based) on: a block with   *)
(* y < 0 is skipped, the others are written in block order.                 *)
RECURSIVE writeBlocksFrom(_, _, _, _)
writeBlocksFrom(grid, piece, cells, i) ==
  IF i > Len(cells) THEN grid
  ELSE IF cells[i].y < 0 THEN writeBlocksFrom(grid, piece, cells, i + 1)
  ELSE writeBlocksFrom(
         [grid EXCEPT ![cells[i].y + 1][cells[i].x + 1] =
            [ type |-> piece.type,
              isSpecial |-> piece.isSpecial /\ Some(i - 1) = piece.specialBlockIndex ]],
         piece, cells, i + 1)

specialYRows(piece, cells) ==
  { cells[i].y : i \in { j \in 1..Len(cells) :
        cells[j].y >= 0 /\ piece.isSpecial /\ Some(j - 1) = piece.specialBlockIndex } }

(* The return of lockPiece, cleared being what clearFullLines returned. *)
lockResultOf(piece, absoluteBlocks, cleared) ==
  [ grid |-> cleared.grid,
    linesCleared |-> cleared.linesCleared,
    clearedRows |-> cleared.clearedRows,
    specialMultiplierApplied |->
      cleared.linesCleared > 0 /\ Cardinality(specialYRows(piece, absoluteBlocks)) > 0 ]

lockPiece(grid, piece) ==
  lockResultOf(piece, translateBlocks(piece, None),
    clearFullLines(writeBlocksFrom(grid, piece, translateBlocks(piece, None), 1)))

(* clearRows is called by Game.useItem but its code is not part of the       *)
(* sources at hand; it is modelled from the specification: the listed rows  *)
(* are removed whatever they hold, the rows above move down, empty rows are *)
(* inserted at the top, and the result counts the listed rows that held at  *)
(* least one cell.                                                          *)
isRowEmpty(row) == \A x \in 1..Len(row) : row[x] = NullCell

clearRows(grid, rowIndexes) ==
  LET listed == { rowIndexes[i] : i \in 1..Len(rowIndexes) } \cap (0..(Len(grid) - 1))
      kept == SelectSeq([r \in 1..Len(grid) |-> r], LAMBDA r : (r - 1) \notin listed)
      pad == Len(grid) - Len(kept)
  IN [ grid |-> [r \in 1..Len(grid) |->
                   IF r <= pad THEN createEmptyRow ELSE grid[kept[r - pad]]],
       cleared |-> Cardinality({ y \in listed : ~isRowEmpty(grid[y + 1]) }) ]

(* ------------------------------------------------------------------ *)
(* randomizer.ts                                                       *)
(* ------------------------------------------------------------------ *)
(* A swap that loses items[a]. *)
swapOverwrite(items, a, b) == [items EXCEPT ![a] = items[b]]

swap(items, a, b) == [items EXCEPT ![a] = items[b], ![b] = items[a]]

(* The Fisher-Yates loop from source index i down to 1; js[i] is the value  *)
(* Math.floor(Math.random() * (i + 1)) of that round.                       *)
RECURSIVE shuffleFrom(_, _, _)
shuffleFrom(items, js, i) ==
  IF i <= 0 THEN items
  ELSE shuffleFrom(swap(items, i + 1, js[i] + 1), js, i - 1)

shuffle(items, js) == shuffleFrom(items, js, Len(items) - 1)

(* Every outcome of the random draws of one shuffle of n items. *)
ShuffleDraws(n) == { js \in [1..(n - 1) -> 0..(n - 1)] : \A i \in 1..(n - 1) : js[i] <= i }

refill(js) == shuffle(PIECE_TYPES, js)

(* The end of next(), bag being the bag after the refill if there was one:  *)
(* the bag after the pop and the piece returned; threw is the `throw` of    *)
(* the source.                                                              *)
pop(bag) ==
  IF Len(bag) = 0
  THEN [bag |-> bag, piece |-> None, threw |-> TRUE]
  ELSE [ bag |-> SubSeq(bag, 1, Len(bag) - 1),
         piece |-> Some(bag[Len(bag)]), threw |-> FALSE ]

next(bag, js) == pop(IF Len(bag) = 0 THEN refill(js) ELSE bag)

(* ------------------------------------------------------------------ *)
(* rules.ts, items.ts, scoring.ts                                      *)
(* ------------------------------------------------------------------ *)
lockDelayMs == 500

softDropMultiplier == 16

ITEM_TYPES == <<"bomb", "shuffle", "freeze", "boost">>

(* EFFECT_DURATIONS, in milliseconds. *)
EFFECT_DURATIONS == [freeze |-> 10 * 1000, boost |-> 12 * 1000]

SOFT_DROP_REWARD_INTERVAL == 500

SOFT_DROP_REWARD_POINTS == 50

HARD_DROP_REWARD_POINTS == 100

ITEM_BONUS_POINTS == 200

ITEM_MAX_SLOTS == 3

SCORE_SPEED_INTERVAL == 1000

previewCount == 2

Max(a, b) == IF a >= b THEN a ELSE b

(* registerLineClear with the combo bonus 50 x combo. *)
registerLineClearBonus(g, count, specialMultiplier, scoreMultiplier) ==
  IF count <= 0 THEN [g EXCEPT !.combo = 0]
  ELSE LET baseScore == IF count \in DOMAIN SCORE_TABLE THEN SCORE_TABLE[count] ELSE 0
           combo == g.combo + 1
           comboBonus == IF combo > 1 THEN 50 * combo ELSE 0
           multiplier == IF specialMultiplier THEN 2 ELSE 1
           awarded == (baseScore * multiplier + comboBonus) * scoreMultiplier
       IN [g EXCEPT !.combo = combo,
                    !.maxCombo = Max(g.maxCombo, combo),
                    !.score = g.score + awarded,
                    !.linesCleared = g.linesCleared + count,
                    !.level = 1 + ((g.linesCleared + count) \div 10)]

(* registerLineClear with the level taken from the lines before the call. *)
registerLineClearStaleLevel(g, count, specialMultiplier, scoreMultiplier) ==
  IF count <= 0 THEN [g EXCEPT !.combo = 0]
  ELSE LET baseScore == IF count \in DOMAIN SCORE_TABLE THEN SCORE_TABLE[count] ELSE 0
           combo == g.combo + 1
           comboBonus == IF combo > 1 THEN 50 * (combo - 1) ELSE 0
           multiplier == IF specialMultiplier THEN 2 ELSE 1
           awarded == (baseScore * multiplier + comboBonus) * scoreMultiplier
       IN [g EXCEPT !.combo = combo,
                    !.maxCombo = Max(g.maxCombo, combo),
                    !.score = g.score + awarded,
                    !.linesCleared = g.linesCleared + count,
                    !.level = 1 + (g.linesCleared \div 10)]

registerLineClear(g, count, specialMultiplier, scoreMultiplier) ==
  IF count <= 0 THEN [g EXCEPT !.combo = 0]
  ELSE LET baseScore == IF count \in DOMAIN SCORE_TABLE THEN SCORE_TABLE[count] ELSE 0
           combo == g.combo + 1
           comboBonus == IF combo > 1 THEN 50 * (combo - 1) ELSE 0
           multiplier == IF specialMultiplier THEN 2 ELSE 1
           awarded == (baseScore * multiplier + comboBonus) * scoreMultiplier
       IN [g EXCEPT !.combo = combo,
                    !.maxCombo = Max(g.maxCombo, combo),
                    !.score = g.score + awarded,
                    !.linesCleared = g.linesCleared + count,
                    !.level = 1 + ((g.linesCleared + count) \div 10)]

addSoftDropPoints(g, points) ==
  IF points <= 0 THEN g ELSE [g EXCEPT !.score = g.score + points]

addHardDropPoints(g, points) ==
  IF points <= 0 THEN g ELSE [g EXCEPT !.score = g.score + points]

addBonus(g, points) ==
  IF points <= 0 THEN g ELSE [g EXCEPT !.score = g.score + points]

statsSnapshot(g) ==
  [ score |-> g.score, linesCleared |-> g.linesCleared, level |-> g.level,
    combo |-> g.combo, maxCombo |-> g.maxCombo ]

(* ------------------------------------------------------------------ *)
(* game.ts: the Game's fields as one record g, its methods as operators *)
(* from g to the record after the call (and the value returned).        *)
(* A method that draws random numbers takes them as rnd:                *)
(*   rnd.js        the draws of a bag refill (see shuffleFrom)          *)
(*   rnd.isSpecial Math.random() < specialPieceChance in spawnNextPiece *)
(*   rnd.index     the special block index drawn by createActivePiece   *)
(*   rnd.item      the index into ITEM_TYPES drawn by awardRandomItem   *)
(*   rnd.qs        the draws of shuffleArray                            *)
(* ------------------------------------------------------------------ *)
Event(type, piece, linesCleared, specialMultiplier) ==
  [ type |-> type, piece |-> piece, linesCleared |-> linesCleared,
    specialMultiplier |-> specialMultiplier ]

SpawnEvent(piece) == Event("spawn", Some(piece), 0, FALSE)

LockEvent(linesCleared, specialMultiplier) ==
  Event("lock", None, linesCleared, specialMultiplier)

GameOverEvent == Event("game-over", None, 0, FALSE)

NoOptions ==
  [rotation |-> None, position |-> None, isSpecial |-> None, specialBlockIndex |-> None]

(* The fields of a Game after construction. *)
NewGame ==
  [ board |-> EmptyGrid, bag |-> <<>>,
    score |-> 0, linesCleared |-> 0, level |-> 1, combo |-> 0, maxCombo |-> 0,
    nextQueue |-> <<>>, activePiece |-> None, holdPiece |-> None,
    holdUsed |-> FALSE, isPaused |-> FALSE, isGameOver |-> FALSE,
    softDropActive |-> FALSE, fallAccumulator |-> 0,
    softDropScoreAccumulator |-> 0, lockTimerMs |-> None,
    pendingEvents |-> <<>>, inventory |-> <<>>,
    activeEffects |-> [freeze |-> 0, boost |-> 0] ]

RECURSIVE ensureQueue(_, _, _)
RECURSIVE pushNext(_, _, _, _)
(* The body of the loop of ensureQueue, drawn being what next() returned. *)
pushNext(g, targetLength, js, drawn) ==
  IF drawn.threw THEN g
  ELSE ensureQueue([g EXCEPT !.bag = drawn.bag,
                             !.nextQueue = Append(g.nextQueue, drawn.piece[1])],
                   targetLength, js)

ensureQueue(g, targetLength, js) ==
  IF Len(g.nextQueue) >= targetLength THEN g
  ELSE pushNext(g, targetLength, js, next(g.bag, js))

(* The end of spawnNextPiece that leaves the game-over flag to its callers. *)
placeSpawnSilent(g, piece, rnd) ==
  IF hasCollision(g.board, piece, None)
  THEN [g |-> [g EXCEPT !.activePiece = None], ret |-> FALSE]
  ELSE [ g |-> ensureQueue(
                 [g EXCEPT !.activePiece = Some(piece),
                           !.pendingEvents = Append(g.pendingEvents, SpawnEvent(piece))],
                 previewCount + 1, rnd.js),
         ret |-> TRUE ]

(* The end of spawnNextPiece, from the collision test on: g is the Game     *)
(* after the shift of the queue, piece the piece created.                   *)
placeSpawn(g, piece, rnd) ==
  IF hasCollision(g.board, piece, None)
  THEN [ g |-> [g EXCEPT !.activePiece = None, !.isGameOver = TRUE,
                         !.pendingEvents = Append(g.pendingEvents, GameOverEvent)],
         ret |-> FALSE ]
  ELSE [ g |-> ensureQueue(
                 [g EXCEPT !.activePiece = Some(piece),
                           !.pendingEvents = Append(g.pendingEvents, SpawnEvent(piece))],
                 previewCount + 1, rnd.js),
         ret |-> TRUE ]

(* spawnNextPiece after its first ensureQueue. *)
shiftSpawn(g, rnd) ==
  IF Len(g.nextQueue) = 0 THEN [g |-> g, ret |-> FALSE]
  ELSE placeSpawn([g EXCEPT !.nextQueue = Tail(g.nextQueue)],
                  createActivePiece(Head(g.nextQueue),
                    [NoOptions EXCEPT !.isSpecial = Some(rnd.isSpecial)], rnd.index),
                  rnd)

spawnNextPiece(g, rnd) == shiftSpawn(ensureQueue(g, previewCount + 1, rnd.js), rnd)

(* reset without `this.pendingEvents = []`. *)
resetKeepingEvents(g, rnd) ==
  LET g0 == [g EXCEPT !.board = EmptyGrid, !.bag = <<>>,
                      !.score = 0, !.linesCleared = 0, !.level = 1,
                      !.combo = 0, !.maxCombo = 0,
                      !.nextQueue = <<>>, !.activePiece = None, !.holdPiece = None,
                      !.holdUsed = FALSE, !.isPaused = FALSE, !.isGameOver = FALSE,
                      !.softDropActive = FALSE, !.fallAccumulator = 0,
                      !.softDropScoreAccumulator = 0, !.lockTimerMs = None,
                      !.inventory = <<>>,
                      !.activeEffects = [freeze |-> 0, boost |-> 0]]
      g1 == ensureQueue(g0, previewCount + 1, rnd.js)
  IN [g |-> spawnNextPiece(g1, rnd).g, ret |-> TRUE]

reset(g, rnd) ==
  LET g0 == [g EXCEPT !.board = EmptyGrid, !.bag = <<>>,
                      !.score = 0, !.linesCleared = 0, !.level = 1,
                      !.combo = 0, !.maxCombo = 0,
                      !.nextQueue = <<>>, !.activePiece = None, !.holdPiece = None,
                      !.holdUsed = FALSE, !.isPaused = FALSE, !.isGameOver = FALSE,
                      !.softDropActive = FALSE, !.fallAccumulator = 0,
                      !.softDropScoreAccumulator = 0, !.lockTimerMs = None,
                      !.pendingEvents = <<>>, !.inventory = <<>>,
                      !.activeEffects = [freeze |-> 0, boost |-> 0]]
      g1 == ensureQueue(g0, previewCount + 1, rnd.js)
  IN [g |-> spawnNextPiece(g1, rnd).g, ret |-> TRUE]

(* refreshLockDelay that leaves the timer running. *)
refreshLockDelayNever(g) == g

refreshLockDelay(g) ==
  IF g.lockTimerMs # None /\ g.activePiece # None
     /\ hasCollision(g.board, g.activePiece[1], Some(P(0, 1)))
  THEN [g EXCEPT !.lockTimerMs = Some(0)]
  ELSE g

beginLockDelay(g, force) ==
  IF g.lockTimerMs = None \/ force THEN [g EXCEPT !.lockTimerMs = Some(0)] ELSE g

(* tryMove that never resets the fall accumulator. *)
tryMoveKeeping(g, delta, resetAccumulator) ==
  IF g.activePiece = None THEN [g |-> g, ret |-> FALSE]
  ELSE LET candidate == movePiece(g.activePiece[1], delta)
       IN IF hasCollision(g.board, candidate, None) THEN [g |-> g, ret |-> FALSE]
          ELSE LET g1 == [g EXCEPT !.activePiece = Some(candidate)]
                   g3 == IF delta.x # 0 \/ delta.y < 0 THEN refreshLockDelay(g1) ELSE g1
               IN [g |-> g3, ret |-> TRUE]

tryMove(g, delta, resetAccumulator) ==
  IF g.activePiece = None THEN [g |-> g, ret |-> FALSE]
  ELSE LET candidate == movePiece(g.activePiece[1], delta)
       IN IF hasCollision(g.board, candidate, None) THEN [g |-> g, ret |-> FALSE]
          ELSE LET g1 == [g EXCEPT !.activePiece = Some(candidate)]
                   g2 == IF resetAccumulator THEN [g1 EXCEPT !.fallAccumulator = 0] ELSE g1
                   g3 == IF delta.x # 0 \/ delta.y < 0 THEN refreshLockDelay(g2) ELSE g2
               IN [g |-> g3, ret |-> TRUE]

(* awardRandomItem without the test of the inventory's length. *)
awardRandomItemAlways(g, item) ==
  [g EXCEPT !.inventory = Append(g.inventory, ITEM_TYPES[item + 1])]

awardRandomItem(g, item) ==
  IF Len(g.inventory) >= ITEM_MAX_SLOTS THEN g
  ELSE [g EXCEPT !.inventory = Append(g.inventory, ITEM_TYPES[item + 1])]

(* The end of lockActivePiece, spawned being what spawnNextPiece returned. *)
endLock(spawned) ==
  IF ~spawned.ret
  THEN [spawned.g EXCEPT !.isGameOver = TRUE,
                         !.pendingEvents = Append(spawned.g.pendingEvents, GameOverEvent)]
  ELSE spawned.g

(* lockActivePiece after board.lockPiece, which returned lockResult and     *)
(* left the board lockResult.grid.                                          *)
settleLock(g, rnd, lockResult) ==
  LET g1 == [g EXCEPT !.board = lockResult.grid, !.activePiece = None,
                      !.lockTimerMs = None, !.fallAccumulator = 0,
                      !.holdUsed = FALSE]
      scoreMultiplier == IF g1.activeEffects.boost > 0 THEN 2 ELSE 1
      g2 == registerLineClear(g1, lockResult.linesCleared,
                              lockResult.specialMultiplierApplied, scoreMultiplier)
      g3 == IF lockResult.linesCleared > 0 /\ lockResult.specialMultiplierApplied
            THEN awardRandomItem(g2, rnd.item) ELSE g2
  IN endLock(spawnNextPiece(
       [g3 EXCEPT !.pendingEvents =
          Append(g3.pendingEvents,
                 LockEvent(lockResult.linesCleared, lockResult.specialMultiplierApplied))],
       rnd))

lockActivePiece(g, rnd) ==
  IF g.activePiece = None THEN g
  ELSE settleLock(g, rnd, lockPiece(g.board, g.activePiece[1]))

(* updateActiveEffects without Math.max(0, ...). *)
updateActiveEffectsUnclamped(g, deltaMs) ==
  [g EXCEPT !.activeEffects =
     [key \in DOMAIN g.activeEffects |->
        IF g.activeEffects[key] > 0 THEN g.activeEffects[key] - deltaMs
        ELSE g.activeEffects[key]]]

updateActiveEffects(g, deltaMs) ==
  [g EXCEPT !.activeEffects =
     [key \in DOMAIN g.activeEffects |->
        IF g.activeEffects[key] > 0 THEN Max(0, g.activeEffects[key] - deltaMs)
        ELSE g.activeEffects[key]]]

RECURSIVE softDropRewardLoop(_)
softDropRewardLoop(g) ==
  IF g.softDropScoreAccumulator >= SOFT_DROP_REWARD_INTERVAL
  THEN softDropRewardLoop(
         [addSoftDropPoints(g, SOFT_DROP_REWARD_POINTS) EXCEPT
            !.softDropScoreAccumulator = g.softDropScoreAccumulator - SOFT_DROP_REWARD_INTERVAL])
  ELSE g

updateSoftDropBonus(g, deltaMs) ==
  IF ~g.softDropActive \/ g.activePiece = None
  THEN [g EXCEPT !.softDropScoreAccumulator = 0]
  ELSE softDropRewardLoop(
         [g EXCEPT !.softDropScoreAccumulator = g.softDropScoreAccumulator + deltaMs])

(* One row of fall, in the unit of fallAccumulator: the product of the      *)
(* denominators of gravityPerSecond = 6/5, the level multiplier             *)
(* (25 + 2 (level - 1)) / 25, the score multiplier (100 + 3 steps) / 100,   *)
(* the freeze multiplier 7/20 or 20/20, and of deltaSeconds = dq / 4 (the   *)
(* 6 and the 4 reduced to 3 / 2).                                           *)
FallOne == 5 * 25 * 100 * 20 * 2

(* gravityStep of a game without gravity. *)
gravityStepNone(g, dq) == 0

(* gravityRate * deltaSeconds, in the unit of fallAccumulator. *)
gravityStep(g, dq) ==
  LET levelMultiplier == 25 + (g.level - 1) * 2
      scoreSteps == g.score \div SCORE_SPEED_INTERVAL
      scoreMultiplier == 100 + scoreSteps * 3
      freezeMultiplier == IF g.activeEffects.freeze > 0 THEN 7 ELSE 20
  IN 3 * (IF g.softDropActive THEN softDropMultiplier ELSE 1)
       * levelMultiplier * scoreMultiplier * freezeMultiplier * dq

(* The while loop of advanceGravity; fallStep is its body once tryMove has   *)
(* returned moved.                                                          *)
RECURSIVE gravityLoop(_)
RECURSIVE fallStep(_)
fallStep(moved) ==
  IF ~moved.ret THEN beginLockDelay(moved.g, FALSE)
  ELSE gravityLoop([moved.g EXCEPT !.fallAccumulator = moved.g.fallAccumulator - FallOne])

gravityLoop(g) ==
  IF g.fallAccumulator >= FallOne THEN fallStep(tryMove(g, P(0, 1), TRUE)) ELSE g

(* advanceGravity after the spawn it makes when there is no active piece. *)
fall(g, dq) ==
  IF g.activePiece = None THEN g
  ELSE gravityLoop([g EXCEPT !.fallAccumulator = g.fallAccumulator + gravityStep(g, dq)])

advanceGravity(g, dq, rnd) ==
  fall(IF g.activePiece = None THEN spawnNextPiece(g, rnd).g ELSE g, dq)

(* processLockDelay that locks the piece once the timer is due, resting or  *)
(* not, and keeps the timer of a piece that is not resting.                 *)
processLockDelayAirborne(g, deltaMs, rnd) ==
  IF g.activePiece = None THEN g
  ELSE IF g.lockTimerMs = None
       THEN IF hasCollision(g.board, g.activePiece[1], Some(P(0, 1)))
            THEN [g EXCEPT !.lockTimerMs = Some(0)]
            ELSE g
       ELSE LET g1 == [g EXCEPT !.lockTimerMs = Some(g.lockTimerMs[1] + deltaMs)]
            IN IF g1.lockTimerMs[1] >= lockDelayMs THEN lockActivePiece(g1, rnd)
               ELSE g1

processLockDelay(g, deltaMs, rnd) ==
  IF g.activePiece = None THEN g
  ELSE IF hasCollision(g.board, g.activePiece[1], Some(P(0, 1)))
       THEN IF g.lockTimerMs = None THEN [g EXCEPT !.lockTimerMs = Some(0)]
            ELSE LET g1 == [g EXCEPT !.lockTimerMs = Some(g.lockTimerMs[1] + deltaMs)]
                 IN IF g1.lockTimerMs[1] >= lockDelayMs THEN lockActivePiece(g1, rnd)
                    ELSE g1
       ELSE [g EXCEPT !.lockTimerMs = None]

getState(g) ==
  [ board |-> g.board, activePiece |-> g.activePiece,
    nextQueue |-> SubSeq(g.nextQueue, 1, IF Len(g.nextQueue) < previewCount
                                         THEN Len(g.nextQueue) ELSE previewCount),
    holdPiece |-> g.holdPiece, inventory |-> g.inventory,
    effects |-> g.activeEffects, stats |-> statsSnapshot(g),
    isPaused |-> g.isPaused, isGameOver |-> g.isGameOver ]

(* The end of tick: getState(), then flushEvents(), and the return. *)
(* flushEvents returning the pending events without emptying them. *)
flushEventsKeeping(g) ==
  [ g |-> g, ret |-> [state |-> getState(g), events |-> g.pendingEvents] ]

flushEvents(g) ==
  [ g |-> [g EXCEPT !.pendingEvents = <<>>],
    ret |-> [state |-> getState(g), events |-> g.pendingEvents] ]

(* tick suspended by game over only, not by pause. *)
tickIgnoringPause(g, dq, rnd) ==
  flushEvents(
    IF ~g.isGameOver
    THEN processLockDelay(
           advanceGravity(
             updateSoftDropBonus(updateActiveEffects(g, dq * 250), dq * 250),
             dq, rnd),
           dq * 250, rnd)
    ELSE g)

(* tick that lets the effects decay after the lock delay instead of first. *)
tickDecayLast(g, dq, rnd) ==
  flushEvents(
    IF ~g.isPaused /\ ~g.isGameOver
    THEN updateActiveEffects(
           processLockDelay(
             advanceGravity(updateSoftDropBonus(g, dq * 250), dq, rnd),
             dq * 250, rnd),
           dq * 250)
    ELSE g)

(* tick(deltaSeconds) with deltaSeconds = dq / 4. *)
tick(g, dq, rnd) ==
  flushEvents(
    IF ~g.isPaused /\ ~g.isGameOver
    THEN processLockDelay(
           advanceGravity(
             updateSoftDropBonus(updateActiveEffects(g, dq * 250), dq * 250),
             dq, rnd),
           dq * 250, rnd)
    ELSE g)

(* togglePause that also leaves game over. *)
togglePauseResume(g) ==
  [g |-> [g EXCEPT !.isPaused = ~g.isPaused, !.isGameOver = FALSE], ret |-> TRUE]

togglePause(g) == [g |-> [g EXCEPT !.isPaused = ~g.isPaused], ret |-> TRUE]

setSoftDrop(g, active) ==
  LET g1 == [g EXCEPT !.softDropActive = active]
  IN [ g |-> IF ~active THEN [g1 EXCEPT !.softDropScoreAccumulator = 0] ELSE g1,
       ret |-> TRUE ]

moveHorizontal(g, direction) == tryMove(g, P(direction, 0), FALSE)

(* The end of softDropStep, moved being what tryMove returned. *)
endSoftDropStep(moved) ==
  [ g |-> IF ~moved.ret THEN beginLockDelay(moved.g, FALSE) ELSE moved.g,
    ret |-> moved.ret ]

softDropStep(g) ==
  IF g.activePiece = None THEN [g |-> g, ret |-> FALSE]
  ELSE endSoftDropStep(tryMove(g, P(0, 1), TRUE))

(* The for loop of rotate from kick index i (1-based) on. *)
RECURSIVE rotateFrom(_, _, _, _)
rotateFrom(g, rotated, kicks, i) ==
  IF i > Len(kicks) THEN [g |-> g, ret |-> FALSE]
  ELSE LET candidate == movePiece(rotated, kicks[i])
       IN IF ~hasCollision(g.board, candidate, None)
          THEN [g |-> refreshLockDelay([g EXCEPT !.activePiece = Some(candidate)]),
                ret |-> TRUE]
          ELSE rotateFrom(g, rotated, kicks, i + 1)

rotate(g, direction) ==
  IF g.activePiece = None THEN [g |-> g, ret |-> FALSE]
  ELSE LET r == rotatePiece(g.activePiece[1], direction)
       IN rotateFrom(g, r.rotated, r.kicks, 1)

(* HeldOf that forgets that the piece is special. *)
HeldOfPlain(piece) == [type |-> piece.type, isSpecial |-> FALSE]

HeldOf(piece) == [type |-> piece.type, isSpecial |-> piece.isSpecial]

(* hold that does not look at holdUsed. *)
holdAgain(g, rnd) ==
  IF g.activePiece = None THEN [g |-> g, ret |-> FALSE]
  ELSE LET current == g.activePiece[1]
           held == g.holdPiece
           g1 == [g EXCEPT !.holdUsed = TRUE, !.activePiece = None,
                           !.lockTimerMs = None, !.fallAccumulator = 0]
       IN IF held # None
          THEN LET swapped == createActivePiece(held[1].type,
                                [NoOptions EXCEPT !.isSpecial = Some(held[1].isSpecial)],
                                rnd.index)
               IN IF hasCollision(g1.board, swapped, None)
                  THEN [ g |-> [g1 EXCEPT !.isGameOver = TRUE,
                                          !.pendingEvents = Append(g1.pendingEvents, GameOverEvent)],
                         ret |-> FALSE ]
                  ELSE [ g |-> [g1 EXCEPT !.activePiece = Some(swapped),
                                          !.holdPiece = Some(HeldOf(current))],
                         ret |-> TRUE ]
          ELSE spawnNextPiece([g1 EXCEPT !.holdPiece = Some(HeldOf(current))], rnd)

(* hold that finds the swapped piece blocked and leaves the game running. *)
holdBlockedSilently(g, rnd) ==
  IF g.activePiece = None THEN [g |-> g, ret |-> FALSE]
  ELSE IF g.holdUsed THEN [g |-> g, ret |-> FALSE]
  ELSE LET current == g.activePiece[1]
           held == g.holdPiece
           g1 == [g EXCEPT !.holdUsed = TRUE, !.activePiece = None,
                           !.lockTimerMs = None, !.fallAccumulator = 0]
       IN IF held # None
          THEN LET swapped == createActivePiece(held[1].type,
                                [NoOptions EXCEPT !.isSpecial = Some(held[1].isSpecial)],
                                rnd.index)
               IN IF hasCollision(g1.board, swapped, None)
                  THEN [g |-> g1, ret |-> FALSE]
                  ELSE [ g |-> [g1 EXCEPT !.activePiece = Some(swapped),
                                          !.holdPiece = Some(HeldOf(current))],
                         ret |-> TRUE ]
          ELSE spawnNextPiece([g1 EXCEPT !.holdPiece = Some(HeldOf(current))], rnd)

hold(g, rnd) ==
  IF g.activePiece = None THEN [g |-> g, ret |-> FALSE]
  ELSE IF g.holdUsed THEN [g |-> g, ret |-> FALSE]
  ELSE LET current == g.activePiece[1]
           held == g.holdPiece
           g1 == [g EXCEPT !.holdUsed = TRUE, !.activePiece = None,
                           !.lockTimerMs = None, !.fallAccumulator = 0]
       IN IF held # None
          THEN LET swapped == createActivePiece(held[1].type,
                                [NoOptions EXCEPT !.isSpecial = Some(held[1].isSpecial)],
                                rnd.index)
               IN IF hasCollision(g1.board, swapped, None)
                  THEN [ g |-> [g1 EXCEPT !.isGameOver = TRUE,
                                          !.pendingEvents = Append(g1.pendingEvents, GameOverEvent)],
                         ret |-> FALSE ]
                  ELSE [ g |-> [g1 EXCEPT !.activePiece = Some(swapped),
                                          !.holdPiece = Some(HeldOf(current))],
                         ret |-> TRUE ]
          ELSE spawnNextPiece([g1 EXCEPT !.holdPiece = Some(HeldOf(current))], rnd)

(* The while loop of hardDrop; dropStep is its test and body once tryMove    *)
(* has returned moved.                                                      *)
RECURSIVE hardDropLoop(_, _)
RECURSIVE dropStep(_, _, _)
dropStep(g, dropped, moved) ==
  IF moved.ret THEN hardDropLoop(moved.g, dropped + 1)
  ELSE [g |-> g, dropped |-> dropped]

hardDropLoop(g, dropped) == dropStep(g, dropped, tryMove(g, P(0, 1), TRUE))

(* The end of a hardDrop that pays the reward for every row dropped. *)
endHardDropPerRow(r) ==
  [ g |-> beginLockDelay(
            addHardDropPoints(r.g, HARD_DROP_REWARD_POINTS * r.dropped),
            TRUE),
    ret |-> r.dropped ]

(* The end of a hardDrop that locks the piece at once. *)
endHardDropLocking(r) ==
  [ g |-> IF r.g.activePiece = None THEN r.g
          ELSE [ (IF r.dropped > 0 THEN addHardDropPoints(r.g, HARD_DROP_REWARD_POINTS) ELSE r.g)
                   EXCEPT !.board = lockPiece(r.g.board, r.g.activePiece[1]).grid,
                          !.activePiece = None,
                          !.lockTimerMs = None ],
    ret |-> r.dropped ]

(* The end of hardDrop, r being what the loop left. *)
endHardDrop(r) ==
  [ g |-> beginLockDelay(
            IF r.dropped > 0 THEN addHardDropPoints(r.g, HARD_DROP_REWARD_POINTS) ELSE r.g,
            TRUE),
    ret |-> r.dropped ]

(* hardDrop that also writes the dropped piece to the board. *)
hardDropWriting(g) ==
  LET r == endHardDrop(hardDropLoop(g, 0))
  IN IF r.g.activePiece = None THEN r
     ELSE [ g |-> [r.g EXCEPT !.board = lockPiece(r.g.board, r.g.activePiece[1]).grid],
            ret |-> r.ret ]

hardDrop(g) == endHardDrop(hardDropLoop(g, 0))

(* shuffleArray: the Fisher-Yates loop is that of the randomizer. *)
(* shuffleArray drawing every entry but the first from the whole array. *)
shuffleArraySampled(items, qs) ==
  [k \in 1..Len(items) |-> items[IF k = 1 THEN 1 ELSE qs[k - 1] + 1]]

shuffleArray(items, qs) == shuffleFrom(items, qs, Len(items) - 1)

(* splice removing the first item whatever the index. *)
RemoveFirst(seq, i) == Tail(seq)

RemoveAt(seq, i) == SubSeq(seq, 1, i - 1) \o SubSeq(seq, i + 1, Len(seq))

(* The bomb case paying for both rows whatever they held. *)
bombBothRows(g, c) ==
  addBonus([g EXCEPT !.board = c.grid], 2 * ITEM_BONUS_POINTS)

(* The bomb case of useItem, c being what board.clearRows returned. *)
bomb(g, c) ==
  IF c.cleared > 0
  THEN addBonus([g EXCEPT !.board = c.grid], c.cleared * ITEM_BONUS_POINTS)
  ELSE [g EXCEPT !.board = c.grid]

useItem(g, slotIndex, rnd) ==
  IF slotIndex < 0 \/ slotIndex >= Len(g.inventory) THEN [g |-> g, ret |-> FALSE]
  ELSE LET item == g.inventory[slotIndex + 1]
           g1 == [g EXCEPT !.inventory = RemoveAt(g.inventory, slotIndex + 1)]
       IN [ ret |-> TRUE,
            g |-> CASE item = "bomb" ->
                       bomb(g1, clearRows(g1.board,
                                  <<BOARD_TOTAL_HEIGHT - 1, BOARD_TOTAL_HEIGHT - 2>>))
                    [] item = "shuffle" ->
                       addBonus([g1 EXCEPT !.nextQueue = shuffleArray(g1.nextQueue, rnd.qs)],
                                ITEM_BONUS_POINTS)
                    [] item = "freeze" ->
                       [g1 EXCEPT !.activeEffects.freeze = EFFECT_DURATIONS.freeze]
                    [] item = "boost" ->
                       [g1 EXCEPT !.activeEffects.boost = EFFECT_DURATIONS.boost]
                    [] OTHER -> g1 ]

(* ------------------------------------------------------------------ *)
(* The state machine of one Game driven by its public methods.          *)
(* ------------------------------------------------------------------ *)
VARIABLES
  game,    \* the fields of the Game (with its Board, randomizer and Scoring)
  lastOp,  \* the last public method called, its arguments and what it returned
  steps,   \* the number of calls made since the initial state
  probe    \* input, stage and output of a function checked on its own

vars == <<game, lastOp, steps, probe>>

(* What a method returned: ok for a boolean, n for a number, and for tick   *)
(* the events and the state snapshot.                                       *)
Ret(ok, n, events, state) == [ok |-> ok, n |-> n, events |-> events, state |-> state]

Op(name, arg, dir, rnd) == [name |-> name, arg |-> arg, dir |-> dir, rnd |-> rnd]

IdentityJs == [i \in 1..6 |-> i]

Rnd(js, isSpecial, index, item, qs) ==
  [js |-> js, isSpecial |-> isSpecial, index |-> index, item |-> item, qs |-> qs]

Rnd0 == Rnd(IdentityJs, FALSE, 0, 0, [i \in 1..2 |-> i])

(* What a call leaves and returns, from the result r of its operator. *)
Void(r) == [g |-> r.g, ret |-> Ret(TRUE, 0, <<>>, None)]

Bool(r) == [g |-> r.g, ret |-> Ret(r.ret, 0, <<>>, None)]

Number(r) == [g |-> r.g, ret |-> Ret(TRUE, r.ret, <<>>, None)]

TickResult(r) == [g |-> r.g, ret |-> Ret(TRUE, 0, r.ret.events, Some(r.ret.state))]

(* The call op made on g: the fields after it and what it returned. *)
Do(g, op) ==
  CASE op.name = "reset" -> Void(reset(g, op.rnd))
    [] op.name = "tick" -> TickResult(tick(g, op.arg, op.rnd))
    [] op.name = "togglePause" -> Void(togglePause(g))
    [] op.name = "setSoftDrop" -> Void(setSoftDrop(g, op.arg = 1))
    [] op.name = "moveHorizontal" -> Bool(moveHorizontal(g, op.arg))
    [] op.name = "softDropStep" -> Bool(softDropStep(g))
    [] op.name = "rotate" -> Bool(rotate(g, op.dir))
    [] op.name = "hold" -> Bool(hold(g, op.rnd))
    [] op.name = "hardDrop" -> Number(hardDrop(g))
    [] op.name = "useItem" -> Bool(useItem(g, op.arg, op.rnd))

(* The calls of script made in order on g. Each call is made on the value   *)
(* of the Game the call before it left (h ranges over that one value).      *)
RECURSIVE Run(_, _)
Run(g, script) ==
  IF script = <<>> THEN g
  ELSE CHOOSE end \in {Run(h, Tail(script)) : h \in {Do(g, Head(script)).g}} : TRUE

MaxSteps == 3

Deltas == {0, 1, 2}

(* The random draws the model lets a call make. GameJs: two of the 5040     *)
(* outcomes of a bag shuffle (no swap at all; every element swapped with    *)
(* the first). SpawnDraws: the piece is not special, or it is and a block   *)
(* index is drawn. A draw the call does not make is not enumerated.         *)
ZeroJs == [i \in 1..6 |-> 0]

GameJs == {IdentityJs, ZeroJs}

SpawnDraws ==
  {[isSpecial |-> FALSE, index |-> 0], [isSpecial |-> TRUE, index |-> 2]}

Rnds(needJs, needSpawn, needItem, needQs) ==
  { Rnd(js, sp.isSpecial, sp.index, item, qs) :
      js \in (IF needJs THEN GameJs ELSE {Rnd0.js}),
      sp \in (IF needSpawn THEN SpawnDraws ELSE {[isSpecial |-> FALSE, index |-> 0]}),
      item \in (IF needItem THEN 0..(Len(ITEM_TYPES) - 1) ELSE {0}),
      qs \in (IF needQs THEN ShuffleDraws(previewCount + 1) ELSE {Rnd0.qs}) }

CountType(events, type) == Cardinality({i \in 1..Len(events) : events[i].type = type})

(* The draws the call op makes on g, found by making it with fixed draws:   *)
(* a refill happened iff the bag grew, a spawn was attempted iff a spawn or *)
(* game-over event was added or holdUsed was set, an item was drawn iff the *)
(* inventory grew, the queue was shuffled iff a shuffle item was used.      *)
DrawsMade(g, name, arg, r) ==
  Rnds(name = "reset" \/ Len(r.g.bag) > Len(g.bag),
       name = "reset"
         \/ CountType(IF name = "tick" THEN r.ret.events ELSE r.g.pendingEvents, "spawn")
              + CountType(IF name = "tick" THEN r.ret.events ELSE r.g.pendingEvents, "game-over")
            > CountType(IF name = "reset" THEN <<>> ELSE g.pendingEvents, "spawn")
              + CountType(IF name = "reset" THEN <<>> ELSE g.pendingEvents, "game-over"),
       Len(r.g.inventory) > Len(g.inventory),
       name = "useItem" /\ r.ret.ok /\ g.inventory[arg + 1] = "shuffle")

RndsFor(g, name, arg, dir) == DrawsMade(g, name, arg, Do(g, Op(name, arg, dir, Rnd0)))

(* The call op of this step. *)
Call(op) ==
  /\ steps < MaxSteps
  /\ \E r \in {Do(game, op)} :
       /\ game' = r.g
       /\ lastOp' = [name |-> op.name, arg |-> op.arg, dir |-> op.dir, ret |-> r.ret]
  /\ steps' = steps + 1
  /\ UNCHANGED probe

(* reset(), and start(), which calls reset() and does nothing else. *)
Reset == \E rnd \in RndsFor(game, "reset", 0, "") : Call(Op("reset", 0, "", rnd))

Tick ==
  \E dq \in Deltas :
    \E rnd \in RndsFor(game, "tick", dq, "") : Call(Op("tick", dq, "", rnd))

TogglePause ==
  \E rnd \in RndsFor(game, "togglePause", 0, "") : Call(Op("togglePause", 0, "", rnd))

SetSoftDrop ==
  \E active \in {0, 1} :
    \E rnd \in RndsFor(game, "setSoftDrop", active, "") :
      Call(Op("setSoftDrop", active, "", rnd))

MoveHorizontal ==
  \E direction \in {-1, 1} :
    \E rnd \in RndsFor(game, "moveHorizontal", direction, "") :
      Call(Op("moveHorizontal", direction, "", rnd))

SoftDropStep ==
  \E rnd \in RndsFor(game, "softDropStep", 0, "") : Call(Op("softDropStep", 0, "", rnd))

Rotate ==
  \E direction \in {"clockwise", "counterclockwise"} :
    \E rnd \in RndsFor(game, "rotate", 0, direction) :
      Call(Op("rotate", 0, direction, rnd))

Hold == \E rnd \in RndsFor(game, "hold", 0, "") : Call(Op("hold", 0, "", rnd))

HardDrop == \E rnd \in RndsFor(game, "hardDrop", 0, "") : Call(Op("hardDrop", 0, "", rnd))

UseItem ==
  \E slotIndex \in -1..Len(game.inventory) :
    \E rnd \in RndsFor(game, "useItem", slotIndex, "") :
      Call(Op("useItem", slotIndex, "", rnd))

NoOp == [name |-> "new", arg |-> 0, dir |-> "", ret |-> Ret(TRUE, 0, <<>>, None)]

NoProbe == [kind |-> "none"]

(* Shorthands for the calls of a script. *)
OpReset(js, isSpecial, index) == Op("reset", 0, "", Rnd(js, isSpecial, index, 0, Rnd0.qs))

OpTick(dq) == Op("tick", dq, "", Rnd0)

OpTickRnd(dq, isSpecial, index, item) ==
  Op("tick", dq, "", Rnd(IdentityJs, isSpecial, index, item, Rnd0.qs))

OpMove(direction) == Op("moveHorizontal", direction, "", Rnd0)

OpRotate(direction) == Op("rotate", 0, direction, Rnd0)

OpHardDrop == Op("hardDrop", 0, "", Rnd0)

OpSoftDropStep == Op("softDropStep", 0, "", Rnd0)

OpHold == Op("hold", 0, "", Rnd0)

RECURSIVE Times(_, _)
Times(n, script) == IF n <= 0 THEN <<>> ELSE script \o Times(n - 1, script)

OpTickJs(dq, js, isSpecial, index) ==
  Op("tick", dq, "", Rnd(js, isSpecial, index, 0, Rnd0.qs))

(* One piece placed by the player: r clockwise rotations at the spawn       *)
(* position, |dx| moves to the side, a hard drop, and a tick of half a      *)
(* second that locks it and spawns the next piece (a bag refill in that     *)
(* tick draws js).                                                          *)
Place(r, dx, js) ==
  Times(r, <<OpRotate("clockwise")>>)
    \o Times(IF dx < 0 THEN -dx ELSE dx, <<OpMove(IF dx < 0 THEN -1 ELSE 1)>>)
    \o <<OpHardDrop, OpTickJs(2, js, FALSE, 0)>>

(* ------------------------------------------------------------------ *)
(* Initial states. Besides the Game as constructed, the model starts    *)
(* from states a Game is in after the calls of a script: each is        *)
(* computed by making those calls on the constructed Game.              *)
(* ------------------------------------------------------------------ *)

(* Seven pieces I L J Z S T O dropped where they spawn: the stack reaches   *)
(* row 1 below the spawn cells, the eighth piece, an I, has just spawned on *)
(* row 0 and nothing is held.                                               *)
ScriptTopA ==
  <<OpReset(ZeroJs, FALSE, 0)>> \o Times(7, Place(0, 0, ZeroJs))

(* The same stack after the first piece, an O, was held: the O of the       *)
(* second bag tops the stack, an I has just spawned and the O is held.      *)
ScriptTopB ==
  <<OpReset(<<0, 1, 0, 1, 0, 1>>, FALSE, 0), OpHold>>
    \o Times(7, Place(0, 0, <<0, 1, 0, 1, 0, 1>>))

(* Rows 8..11 filled except column 5 by the pieces O T S L Z J I T J; the   *)
(* tenth piece, an I (special, its block 0 marked, if isSpecial), is turned *)
(* upright and hard-dropped into the well.                                  *)
ScriptQuadOf(isSpecial) ==
  <<OpReset(<<1, 1, 1, 3, 2, 1>>, FALSE, 0)>>
    \o Place(0, -5, <<0, 1, 1, 0, 5, 2>>) \o Place(0, 3, <<0, 1, 1, 0, 5, 2>>)
    \o Place(1, 4, <<0, 1, 1, 0, 5, 2>>) \o Place(0, -1, <<0, 1, 1, 0, 5, 2>>)
    \o Place(1, -1, <<0, 1, 1, 0, 5, 2>>) \o Place(2, -3, <<0, 1, 1, 0, 5, 2>>)
    \o Place(0, -3, <<0, 1, 1, 0, 5, 2>>) \o Place(1, 2, <<0, 1, 1, 0, 5, 2>>)
    \o Times(2, <<OpRotate("clockwise")>>) \o Times(4, <<OpMove(1)>>)
    \o <<OpHardDrop, OpTickJs(2, <<0, 1, 1, 0, 5, 2>>, isSpecial, 0)>>
    \o <<OpRotate("clockwise"), OpHardDrop>>

ScriptQuad == ScriptQuadOf(FALSE)

ScriptQuadSpecial == ScriptQuadOf(TRUE)

(* The Game and the record of the last call after the calls of script. *)
After(script) ==
  IF script = <<>> THEN [game |-> NewGame, lastOp |-> NoOp]
  ELSE LET op == script[Len(script)]
       IN CHOOSE end \in
            { [ game |-> r.g,
                lastOp |-> [name |-> op.name, arg |-> op.arg, dir |-> op.dir, ret |-> r.ret] ] :
              r \in {Do(g, op) : g \in {Run(NewGame, SubSeq(script, 1, Len(script) - 1))}} } : TRUE

StartNew == After(<<>>)

StartTopA == After(ScriptTopA)

StartTopB == After(ScriptTopB)

StartQuad == After(ScriptQuad)

StartQuadSpecial == After(ScriptQuadSpecial)

Starts == {StartNew, StartTopA, StartTopB, StartQuad, StartQuadSpecial}

Init ==
  /\ \E start \in Starts : game = start.game /\ lastOp = start.lastOp
  /\ steps = 0
  /\ probe = NoProbe

Next ==
  \/ Reset \/ Tick \/ TogglePause \/ SetSoftDrop \/ MoveHorizontal
  \/ SoftDropStep \/ Rotate \/ Hold \/ HardDrop \/ UseItem

Spec == Init /\ [][Next]_vars

(* ------------------------------------------------------------------ *)
(* Properties of the Game (specification Spec). A step of Spec is one   *)
(* call: game is the Game before it, game' the Game after it and        *)
(* lastOp' the call and what it returned.                               *)
(* ------------------------------------------------------------------ *)
IsSpawnBlocked(board, type) ==
  hasCollision(board, createActivePiece(type, NoOptions, 0), None)

EventsOf(events, type) == SelectSeq(events, LAMBDA e : e.type = type)

(* The piece types the next spawn can bring: the head of the queue, or any  *)
(* type when the queue has not been filled yet.                             *)
NextTypes(g) == IF g.nextQueue # <<>> THEN {Head(g.nextQueue)} ELSE PieceTypeSet

(* The call of this step made a spawn attempt or a hold-swap whose piece    *)
(* collides where it spawns: a hold with a piece held swaps it in on the    *)
(* board as it is; a hold with nothing held and a tick with no active piece *)
(* spawn the next piece on the board as it is; a tick that locks spawns the *)
(* next piece on the board the lock leaves.                                 *)
SpawnCollided ==
  \/ /\ lastOp'.name = "hold"
     /\ game.activePiece # None /\ ~game.holdUsed
     /\ IF game.holdPiece # None
        THEN IsSpawnBlocked(game.board, game.holdPiece[1].type)
        ELSE \E t \in NextTypes(game) : IsSpawnBlocked(game.board, t)
  \/ /\ lastOp'.name = "tick"
     /\ ~game.isPaused
     /\ IF game.activePiece = None
        THEN \E t \in NextTypes(game) : IsSpawnBlocked(game.board, t)
        ELSE /\ EventsOf(lastOp'.ret.events, "lock") # <<>>
             /\ \E t \in NextTypes(game) : IsSpawnBlocked(game'.board, t)

(* C1: a call made while the game is not over sets isGameOver exactly when  *)
(* it makes a spawn attempt (after a lock, after a hold into an empty slot, *)
(* on a tick with no active piece) or a hold-swap whose piece collides at   *)
(* its spawn position; no other call sets it.                               *)
C1_GameOverIffSpawnCollides ==
  [][~game.isGameOver => (game'.isGameOver <=> SpawnCollided)]_vars

(* A tick locked the piece and the next piece had no room: game over. *)
C1_Witness ==
  /\ game.isGameOver
  /\ lastOp.name = "tick"
  /\ EventsOf(lastOp.ret.events, "lock") # <<>>

(* C2: once isGameOver is true, every call other than reset leaves it true. *)
C2_GameOverStaysUntilReset ==
  [][(game.isGameOver /\ lastOp'.name # "reset") => game'.isGameOver]_vars

(* The game is over and calls other than reset have been made since. *)
C2_Witness ==
  /\ game.isGameOver
  /\ lastOp.name = "togglePause"
  /\ steps >= 2

(* C3: a tick made while paused or game over changes none of the board,     *)
(* active piece, next queue, held piece, inventory, effects, score, lines,  *)
(* level, combo, fall accumulator, soft-drop accumulator and lock timer,    *)
(* whatever deltaSeconds is; it returns the snapshot of that state and the  *)
(* pending events, and leaves no event pending.                             *)
C3_SuspendedTickIsFrame ==
  [][(lastOp'.name = "tick" /\ (game.isPaused \/ game.isGameOver)) =>
       /\ game' = [game EXCEPT !.pendingEvents = <<>>]
       /\ lastOp'.ret.events = game.pendingEvents
       /\ Len(lastOp'.ret.state) = 1
       /\ LET view == lastOp'.ret.state[1]
          IN /\ view.board = game.board
             /\ view.activePiece = game.activePiece
             /\ view.nextQueue = [i \in 1..Len(view.nextQueue) |-> game.nextQueue[i]]
             /\ Len(view.nextQueue) \in {Len(game.nextQueue), previewCount}
             /\ Len(view.nextQueue) <= Len(game.nextQueue)
             /\ Len(view.nextQueue) <= previewCount
             /\ view.holdPiece = game.holdPiece
             /\ view.inventory = game.inventory
             /\ view.effects = game.activeEffects
             /\ view.stats = [ score |-> game.score, linesCleared |-> game.linesCleared,
                               level |-> game.level, combo |-> game.combo,
                               maxCombo |-> game.maxCombo ]
             /\ view.isPaused = game.isPaused
             /\ view.isGameOver = game.isGameOver]_vars

(* A tick of half a second made while paused with a piece in play returned  *)
(* the events that were pending.                                            *)
C3_Witness ==
  /\ lastOp.name = "tick" /\ lastOp.arg = 2
  /\ game.isPaused /\ ~game.isGameOver
  /\ game.activePiece # None
  /\ lastOp.ret.events # <<>>

(* C6: rotate tries the offsets of the kick table entry (from, to) in order *)
(* on the rotated shape and adopts the first that does not collide; if all  *)
(* collide it returns false and changes nothing (piece and lock timer       *)
(* included); with no active piece it returns false and changes nothing.    *)
C6_RotateFirstFreeKick ==
  [][lastOp'.name = "rotate" =>
       IF game.activePiece = None THEN ~lastOp'.ret.ok /\ game' = game
       ELSE LET piece == game.activePiece[1]
                to == IF lastOp'.dir = "clockwise" THEN (piece.rotation + 1) % 4
                      ELSE (piece.rotation + 3) % 4
                kicks == SRS_KICK_TABLE[piece.type][<<piece.rotation, to>>]
                candidate(i) ==
                  [ type |-> piece.type, rotation |-> to,
                    position |-> P(piece.position.x + kicks[i].x,
                                   piece.position.y + kicks[i].y),
                    blocks |-> TETROMINO_SHAPES[piece.type][to + 1],
                    isSpecial |-> piece.isSpecial,
                    specialBlockIndex |-> piece.specialBlockIndex ]
                free == {i \in 1..Len(kicks) : ~hasCollision(game.board, candidate(i), None)}
            IN IF free = {} THEN ~lastOp'.ret.ok /\ game' = game
               ELSE /\ lastOp'.ret.ok
                    /\ \E i \in free :
                         /\ \A j \in free : i <= j
                         /\ game'.activePiece = Some(candidate(i))]_vars

(* A rotation of the active piece failed: every kick collided. *)
C6_Witness ==
  /\ lastOp.name = "rotate"
  /\ ~lastOp.ret.ok
  /\ game.activePiece # None

Cells(board) ==
  Cardinality({c \in (1..Len(board)) \X (1..BOARD_WIDTH) : board[c[1]][c[2]] # NullCell})

(* The rows a tick removed: a lock writes at most 4 cells and each removed  *)
(* row takes 10 cells away, so the cell count changes by w - 10 r with      *)
(* 0 <= w <= 4.                                                             *)
RowsRemoved == (4 - (Cells(game'.board) - Cells(game.board))) \div 10

(* The points the soft-drop reward adds in a tick of dq quarter seconds. *)
SoftDropAward(g, dq) ==
  IF g.softDropActive /\ g.activePiece # None
  THEN 50 * ((g.softDropScoreAccumulator + dq * 250) \div 500)
  ELSE 0

(* C9: a tick produces at most one lock event, exactly one when it changes  *)
(* the board, and the event's linesCleared is the number of rows the tick   *)
(* removed; when 4 rows are removed the event says 4 and the score grows by *)
(* the base 800, doubled for a special clear, plus the combo bonus, the sum *)
(* doubled under boost.                                                     *)
C9_OneLockEventPerLock ==
  [][lastOp'.name = "tick" =>
       LET locks == EventsOf(lastOp'.ret.events, "lock")
       IN /\ Len(locks) <= 1
          /\ game'.board # game.board => Len(locks) = 1
          /\ Len(locks) = 1 => locks[1].linesCleared = RowsRemoved
          /\ RowsRemoved = 4 =>
               /\ Len(locks) = 1
               /\ locks[1].linesCleared = 4
               /\ game'.score - game.score - SoftDropAward(game, lastOp'.arg)
                    = (800 * (IF locks[1].specialMultiplier THEN 2 ELSE 1)
                         + (IF game'.combo > 1 THEN 50 * (game'.combo - 1) ELSE 0))
                      * (IF game'.activeEffects.boost > 0 THEN 2 ELSE 1)]_vars

(* A tick locked a piece that completed 4 rows. *)
C9_Witness ==
  /\ lastOp.name = "tick"
  /\ \E i \in 1..Len(lastOp.ret.events) :
       lastOp.ret.events[i].type = "lock" /\ lastOp.ret.events[i].linesCleared = 4

(* ------------------------------------------------------------------ *)
(* Board.hasCollision on its own (specification SpecCollision): a       *)
(* piece of any type and rotation, at any position up to MaxReach       *)
(* cells outside the grid, with or without an offset, on the empty      *)
(* board and on the boards of two of the games above.                   *)
(* ------------------------------------------------------------------ *)
MaxReach == 3

ProbeBoards == <<EmptyGrid, StartTopA.game.board, StartQuad.game.board>>

ProbeOffsets == {None, Some(P(0, 1)), Some(P(-1, 0))}

PieceAt(type, rotation, x, y, specialBlockIndex) ==
  createActivePiece(type,
    [ rotation |-> Some(rotation), position |-> Some(P(x, y)),
      isSpecial |-> Some(specialBlockIndex # None),
      specialBlockIndex |-> specialBlockIndex ], 0)

ProbePieces(specials) ==
  { PieceAt(type, rotation, x, y, special) :
      type \in PieceTypeSet, rotation \in 0..3,
      x \in (-MaxReach)..(BOARD_WIDTH - 1),
      y \in (-MaxReach - 1)..(BOARD_TOTAL_HEIGHT - 1),
      special \in specials }

CollisionInit ==
  /\ game = NewGame /\ lastOp = NoOp /\ steps = 0
  /\ \E board \in 1..Len(ProbeBoards), piece \in ProbePieces({None}), offset \in ProbeOffsets :
       probe = [ kind |-> "hasCollision", done |-> FALSE, board |-> board,
                 piece |-> piece, offset |-> offset, out |-> FALSE ]

CheckCollision ==
  /\ probe.kind = "hasCollision" /\ ~probe.done
  /\ probe' = [probe EXCEPT !.done = TRUE,
                 !.out = hasCollision(ProbeBoards[probe.board], probe.piece, probe.offset)]
  /\ UNCHANGED <<game, lastOp, steps>>

SpecCollision == CollisionInit /\ [][CheckCollision]_vars

(* The cells of the probed piece, moved by the probed offset. *)
ProbeCells ==
  LET dx == IF probe.offset = None THEN 0 ELSE probe.offset[1].x
      dy == IF probe.offset = None THEN 0 ELSE probe.offset[1].y
  IN { P(probe.piece.position.x + probe.piece.blocks[i].x + dx,
         probe.piece.position.y + probe.piece.blocks[i].y + dy) :
         i \in 1..Len(probe.piece.blocks) }

(* C4: hasCollision is true iff some translated block has x < 0, x >= 10 or *)
(* y >= 12, or has y >= 0 and lies on an occupied cell; a block with y < 0  *)
(* inside the side walls causes no collision.                               *)
C4_CollisionIffOutsideOrOccupied ==
  (probe.kind = "hasCollision" /\ probe.done) =>
    (probe.out <=>
       \E c \in ProbeCells :
         \/ c.x < 0 \/ c.x >= 10 \/ c.y >= 12
         \/ c.y >= 0 /\ ProbeBoards[probe.board][c.y + 1][c.x + 1] # NullCell)

(* On a board with cells in its top rows, a piece with a block above the    *)
(* top and a block on the grid does not collide.                            *)
C4_Witness ==
  /\ probe.kind = "hasCollision" /\ probe.done /\ ~probe.out
  /\ probe.board = 2
  /\ \E c \in ProbeCells : c.y < 0
  /\ \E c \in ProbeCells : c.y >= 0

(* ------------------------------------------------------------------ *)
(* Board.lockPiece on its own (specification SpecLock): the bottom      *)
(* StackRows rows each hold one of three patterns, none full, as the    *)
(* Board keeps its rows; the piece, special or not, rests on the stack  *)
(* or the floor near the open columns.                                  *)
(* ------------------------------------------------------------------ *)
StackRows == 4

(* Row y (a source index) under pattern k: 1 leaves column 5 open, 2 leaves *)
(* columns 5 and 6 open, 3 fills columns 0..2 only; the cells of a row have *)
(* a type of their own row.                                                 *)
PatternRow(k, y) ==
  [x \in 1..BOARD_WIDTH |->
     IF \/ k = 1 /\ x - 1 # 5
        \/ k = 2 /\ x - 1 \notin {5, 6}
        \/ k = 3 /\ x - 1 <= 2
     THEN [type |-> PIECE_TYPES[(y % 7) + 1], isSpecial |-> FALSE]
     ELSE NullCell]

(* pattern[j] is the pattern of the j-th row from the floor. *)
StackGrid(pattern) ==
  [r \in 1..BOARD_TOTAL_HEIGHT |->
     IF BOARD_TOTAL_HEIGHT - r + 1 \in DOMAIN pattern
     THEN PatternRow(pattern[BOARD_TOTAL_HEIGHT - r + 1], r - 1)
     ELSE createEmptyRow]

(* The pieces whose position is in columns 3..4, under the open columns. *)
LockPieces ==
  { PieceAt(type, rotation, x, y, None) :
      type \in PieceTypeSet, rotation \in 0..3, x \in 3..4,
      y \in (-MaxReach)..(BOARD_TOTAL_HEIGHT - 1) }

(* No special block, or the block of index 0..3. *)
SpecialIndexes == {None} \cup {Some(i) : i \in 0..3}

NoLockResult ==
  [grid |-> <<>>, linesCleared |-> 0, clearedRows |-> <<>>, specialMultiplierApplied |-> FALSE]

LockInit ==
  /\ game = NewGame /\ lastOp = NoOp /\ steps = 0
  /\ \E pattern \in [1..StackRows -> 1..3] :
       \E grid \in {StackGrid(pattern)} :
         \E piece \in LockPieces :
           /\ ~hasCollision(grid, piece, None)
           /\ hasCollision(grid, piece, Some(P(0, 1)))
           /\ \E special \in SpecialIndexes :
                probe = [ kind |-> "lockPiece", done |-> FALSE, pattern |-> pattern,
                          piece |-> PieceAt(piece.type, piece.rotation, piece.position.x,
                                            piece.position.y, special),
                          out |-> NoLockResult ]

CheckLock ==
  /\ probe.kind = "lockPiece" /\ ~probe.done
  /\ probe' = [probe EXCEPT !.done = TRUE,
                 !.out = lockPiece(StackGrid(probe.pattern), probe.piece)]
  /\ UNCHANGED <<game, lastOp, steps>>

SpecLock == LockInit /\ [][CheckLock]_vars

(* The block index (1-based) of the probed piece on cell (x, y), 0 if none. *)
BlockOn(x, y) ==
  LET on == { i \in 1..Len(probe.piece.blocks) :
                /\ probe.piece.position.x + probe.piece.blocks[i].x = x
                /\ probe.piece.position.y + probe.piece.blocks[i].y = y }
  IN IF on = {} THEN 0 ELSE CHOOSE i \in on : TRUE

(* The probed grid with the probed piece written into it. *)
ProbeWritten ==
  LET grid == StackGrid(probe.pattern)
  IN [r \in 1..BOARD_TOTAL_HEIGHT |->
        [x \in 1..BOARD_WIDTH |->
           IF BlockOn(x - 1, r - 1) = 0 THEN grid[r][x]
           ELSE [ type |-> probe.piece.type,
                  isSpecial |-> probe.piece.specialBlockIndex = Some(BlockOn(x - 1, r - 1) - 1) ]]]

(* The rows (1-based) of grid that have no empty cell. *)
FullRowsOf(grid) ==
  { r \in 1..BOARD_TOTAL_HEIGHT : \A x \in 1..BOARD_WIDTH : grid[r][x] # NullCell }

(* C8: lockPiece removes every completed row, keeps the other rows with     *)
(* their cells in their order, moved down by the number of removed rows     *)
(* below them, under as many empty rows at the top as rows were removed,    *)
(* and linesCleared is the number of completed rows.                        *)
C8_ClearKeepsOtherRowsInOrder ==
  (probe.kind = "lockPiece" /\ probe.done) =>
    \A written \in {ProbeWritten} :
      \A full \in {FullRowsOf(written)} :
        \A kept \in {SelectSeq([r \in 1..BOARD_TOTAL_HEIGHT |-> r], LAMBDA r : r \notin full)} :
          /\ probe.out.linesCleared = Cardinality(full)
          /\ probe.out.grid =
               [r \in 1..BOARD_TOTAL_HEIGHT |->
                  IF r <= Cardinality(full) THEN [x \in 1..BOARD_WIDTH |-> NullCell]
                  ELSE written[kept[r - Cardinality(full)]]]

(* A lock completed two rows with a row between them that stays, above a    *)
(* third completed row or not.                                              *)
C8_Witness ==
  /\ probe.kind = "lockPiece" /\ probe.done
  /\ probe.out.linesCleared >= 2
  /\ \E full \in {FullRowsOf(ProbeWritten)} :
       \E r \in 2..(BOARD_TOTAL_HEIGHT - 1) :
         r \notin full /\ r - 1 \in full /\ r + 1 \in full

(* C10: lockPiece returns specialMultiplierApplied = true iff the piece is  *)
(* special and the row its special block was written in is one of the rows  *)
(* this lock completed and cleared.                                         *)
C10_SpecialIffItsRowCleared ==
  (probe.kind = "lockPiece" /\ probe.done) =>
    \A full \in {FullRowsOf(ProbeWritten)} :
      probe.out.specialMultiplierApplied <=>
        /\ probe.piece.isSpecial
        /\ \E i \in 1..Len(probe.piece.blocks) :
             /\ probe.piece.specialBlockIndex = Some(i - 1)
             /\ probe.piece.position.y + probe.piece.blocks[i].y >= 0
             /\ probe.piece.position.y + probe.piece.blocks[i].y + 1 \in full

(* ------------------------------------------------------------------ *)
(* The SevenBagRandomizer on its own (specification SpecBag): draws by  *)
(* next() with every outcome of the shuffle of a refill, and reset().   *)
(* seen counts the types drawn since the last multiple of 7 draws.      *)
(* ------------------------------------------------------------------ *)
MaxBags == 2

NoneSeen == [t \in PieceTypeSet |-> 0]

BagInit ==
  /\ game = NewGame /\ lastOp = NoOp /\ steps = 0
  /\ probe = [kind |-> "bag", bag |-> <<>>, seen |-> NoneSeen, drawn |-> 0, threw |-> FALSE]

BagNext ==
  /\ probe.kind = "bag" /\ probe.drawn < Len(PIECE_TYPES) * MaxBags
  /\ \E js \in (IF Len(probe.bag) = 0 THEN ShuffleDraws(Len(PIECE_TYPES)) ELSE {IdentityJs}) :
       LET r == next(probe.bag, js)
           since == IF probe.drawn % Len(PIECE_TYPES) = 0 THEN NoneSeen ELSE probe.seen
       IN probe' = [probe EXCEPT
                      !.bag = r.bag,
                      !.seen = IF r.threw THEN since
                               ELSE [since EXCEPT ![r.piece[1]] = @ + 1],
                      !.drawn = probe.drawn + 1,
                      !.threw = r.threw]
  /\ UNCHANGED <<game, lastOp, steps>>

BagReset ==
  /\ probe.kind = "bag" /\ probe.drawn > 0
  /\ probe' = [probe EXCEPT !.bag = <<>>, !.seen = NoneSeen, !.drawn = 0]
  /\ UNCHANGED <<game, lastOp, steps>>

SpecBag == BagInit /\ [][BagNext \/ BagReset]_vars

(* C5: from a new or reset randomizer, whatever the shuffles draw, next()   *)
(* never throws, no type comes twice among the draws 7k+1 .. 7k+7, and      *)
(* after draw 7k+7 each of the 7 types has come exactly once.               *)
C5_SevenDrawsArePermutation ==
  probe.kind = "bag" =>
    /\ ~probe.threw
    /\ \A t \in PieceTypeSet : probe.seen[t] <= 1
    /\ (probe.drawn > 0 /\ probe.drawn % 7 = 0) =>
         \A t \in {"I", "O", "T", "S", "Z", "J", "L"} : probe.seen[t] = 1

(* The second bag has been drawn to its end. *)
C5_Witness ==
  /\ probe.kind = "bag"
  /\ probe.drawn = 14
  /\ probe.bag = <<>>
  /\ \A t \in PieceTypeSet : probe.seen[t] = 1

(* ------------------------------------------------------------------ *)
(* Game.rotate there and back (specification SpecRotate): in a game on  *)
(* the empty board and in two of the games above, with the active piece *)
(* of any type and rotation wherever it does not collide, a clockwise   *)
(* rotation is followed by a counterclockwise one.                      *)
(* ------------------------------------------------------------------ *)
RotateGames ==
  {After(<<OpReset(ZeroJs, FALSE, 0)>>).game, StartTopA.game, StartQuad.game}

RotateInit ==
  /\ lastOp = NoOp /\ steps = 0
  /\ \E g \in RotateGames, piece \in ProbePieces({None, Some(1)}) :
       /\ ~hasCollision(g.board, piece, None)
       /\ game = [g EXCEPT !.activePiece = Some(piece)]
       /\ probe = [ kind |-> "rotate", stage |-> 0, start |-> piece,
                    first |-> FALSE, second |-> FALSE ]

(* rotate(direction) succeeded and kept the position: the (0,0) kick (the   *)
(* other offsets of every table entry are not (0,0)).                       *)
RotatedInPlace(g, direction) ==
  LET r == rotate(g, direction)
  IN r.ret /\ r.g.activePiece[1].position = g.activePiece[1].position

RotateThere ==
  /\ probe.kind = "rotate" /\ probe.stage = 0
  /\ game' = rotate(game, "clockwise").g
  /\ probe' = [probe EXCEPT !.stage = 1, !.first = RotatedInPlace(game, "clockwise")]
  /\ UNCHANGED <<lastOp, steps>>

RotateBack ==
  /\ probe.kind = "rotate" /\ probe.stage = 1
  /\ game' = rotate(game, "counterclockwise").g
  /\ probe' = [probe EXCEPT !.stage = 2, !.second = RotatedInPlace(game, "counterclockwise")]
  /\ UNCHANGED <<lastOp, steps>>

SpecRotate == RotateInit /\ [][RotateThere \/ RotateBack]_vars

(* C7: after rotate('clockwise') and rotate('counterclockwise') that both   *)
(* succeeded with the (0,0) kick, the active piece has the rotation,        *)
(* position, type, isSpecial and specialBlockIndex it had before.           *)
C7_RotateThereAndBack ==
  (probe.kind = "rotate" /\ probe.stage = 2 /\ probe.first /\ probe.second) =>
    /\ game.activePiece # None
    /\ game.activePiece[1].rotation = probe.start.rotation
    /\ game.activePiece[1].position = probe.start.position
    /\ game.activePiece[1].type = probe.start.type
    /\ game.activePiece[1].isSpecial = probe.start.isSpecial
    /\ game.activePiece[1].specialBlockIndex = probe.start.specialBlockIndex

(* A special T in its last rotation state was rotated there and back in     *)
(* place.                                                                   *)
C7_Witness ==
  /\ probe.kind = "rotate" /\ probe.stage = 2 /\ probe.first /\ probe.second
  /\ probe.start.type = "T" /\ probe.start.rotation = 3
  /\ probe.start.isSpecial

(* ------------------------------------------------------------------ *)
(* Locks that clear lines (specification SpecScore): the calls of Spec  *)
(* made from games in which a hard-dropped piece is about to complete   *)
(* 1, 2, 3 or 4 rows, as the first clear of the game, right after       *)
(* another clear, with or without a special piece and the boost effect, *)
(* and as the clear that brings the lines of the game to 10.            *)
(* ------------------------------------------------------------------ *)
OpTickDraw(dq, js, isSpecial, index, item) ==
  Op("tick", dq, "", Rnd(js, isSpecial, index, item, Rnd0.qs))

OpUseItem(slotIndex) == Op("useItem", slotIndex, "", Rnd0)

(* The Game and the record of the last call after the calls of script made  *)
(* on the Game of start.                                                    *)
AfterFrom(start, script) ==
  IF script = <<>> THEN start
  ELSE LET op == script[Len(script)]
       IN CHOOSE end \in
            { [ game |-> r.g,
                lastOp |-> [name |-> op.name, arg |-> op.arg, dir |-> op.dir, ret |-> r.ret] ] :
              r \in {Do(g, op) : g \in {Run(start.game, SubSeq(script, 1, Len(script) - 1))}} } : TRUE

(* Row 11 filled except column 5 by the pieces O T J S, rows 9 and 10 in    *)
(* part; the fifth piece, an I, is turned upright and hard-dropped into     *)
(* column 5: its lock completes row 11, the first clear of the game.        *)
ScriptSingle ==
  <<OpReset(<<0, 0, 3, 2, 2, 1>>, FALSE, 0)>>
    \o Place(0, -5, IdentityJs) \o Place(0, -1, IdentityJs)
    \o Place(0, 3, IdentityJs) \o Place(1, 4, IdentityJs)
    \o <<OpRotate("clockwise"), OpHardDrop>>

(* Rows 10 and 11 filled except column 5 by the pieces O J T S L Z; the     *)
(* seventh piece, an I, is upright in column 5: its lock completes both.    *)
ScriptDouble ==
  <<OpReset(<<1, 1, 3, 2, 5, 1>>, FALSE, 0)>>
    \o Place(0, -5, IdentityJs) \o Place(0, -1, IdentityJs)
    \o Place(0, 3, IdentityJs) \o Place(1, 4, IdentityJs)
    \o Place(1, -1, IdentityJs) \o Place(1, 2, IdentityJs)
    \o <<OpRotate("clockwise"), OpHardDrop>>

(* Rows 9..11 filled except column 5 and row 8 except columns 5 and 6 by    *)
(* the pieces I S L O J T Z J S; the tenth piece, an I (special, its lowest *)
(* block marked, if iSpecial), is upright in column 5: its lock completes   *)
(* rows 9..11 and leaves row 8, now the bottom row, open in column 6 only.  *)
ScriptTripleOf(iSpecial) ==
  <<OpReset(<<1, 1, 1, 0, 3, 0>>, FALSE, 0)>>
    \o Place(0, -3, <<0, 1, 2, 0, 3, 5>>) \o Place(1, -1, <<0, 1, 2, 0, 3, 5>>)
    \o Place(1, 2, <<0, 1, 2, 0, 3, 5>>) \o Place(0, 3, <<0, 1, 2, 0, 3, 5>>)
    \o Place(0, -3, <<0, 1, 2, 0, 3, 5>>) \o Place(1, 3, <<0, 1, 2, 0, 3, 5>>)
    \o Place(0, -3, <<0, 1, 2, 0, 3, 5>>) \o Place(2, -1, <<0, 1, 2, 0, 3, 5>>)
    \o Times(1, <<OpRotate("clockwise")>>) \o Times(4, <<OpMove(1)>>)
    \o <<OpHardDrop, OpTickDraw(2, <<0, 1, 2, 0, 3, 5>>, iSpecial, 3, 0)>>
    \o <<OpRotate("clockwise"), OpHardDrop>>

(* The game of ScriptTripleOf once the I has locked (a special I brings the *)
(* boost item, which is used at once): the eleventh piece, a T (special,    *)
(* its lowest block marked, if tSpecial), is turned point down and          *)
(* hard-dropped into column 6: its lock completes the bottom row, the       *)
(* second clear in a row.                                                   *)
ScriptComboOf(iSpecial, tSpecial) ==
  ScriptTripleOf(iSpecial)
    \o <<OpTickDraw(2, IdentityJs, tSpecial, 3, 3)>>
    \o (IF iSpecial THEN <<OpUseItem(0)>> ELSE <<>>)
    \o Times(2, <<OpRotate("clockwise")>>) \o Times(2, <<OpMove(1)>>)
    \o <<OpHardDrop>>

(* The shuffles of the four bags of ScriptLevelA..C: O T I Z J L S,         *)
(* O T I J S Z L, S Z J L O I T and O T S Z L J I.                          *)
LevelJs ==
  << <<1, 2, 0, 0, 2, 1>>,
     <<0, 2, 2, 0, 2, 1>>,
     <<0, 1, 3, 4, 4, 3>>,
     <<1, 1, 3, 3, 2, 1>> >>

(* Ten pieces that fill rows 8..11, the tenth an upright I in column 9:     *)
(* 4 rows are cleared and the board is empty again.                         *)
ScriptLevelA ==
  <<OpReset(LevelJs[1], FALSE, 0)>> \o Place(0, -5, LevelJs[1])
    \o Place(0, -1, LevelJs[1]) \o Place(0, 2, LevelJs[1])
    \o Place(0, 0, LevelJs[2]) \o Place(1, -2, LevelJs[2])
    \o Place(0, 3, LevelJs[2]) \o Place(0, 3, LevelJs[2])
    \o Place(0, -5, LevelJs[2]) \o Place(2, 1, LevelJs[2])
    \o Place(1, 4, LevelJs[2])

(* The next ten pieces, which do the same: 8 rows cleared. *)
ScriptLevelB ==
  Place(0, -3, LevelJs[3]) \o Place(1, -4, LevelJs[3])
    \o Place(0, -1, LevelJs[3]) \o Place(0, 3, LevelJs[3])
    \o Place(1, 0, LevelJs[3]) \o Place(0, -2, LevelJs[3])
    \o Place(2, 0, LevelJs[3]) \o Place(1, 2, LevelJs[4])
    \o Place(0, 2, LevelJs[4]) \o Place(1, 4, LevelJs[4])

(* Seven pieces that fill rows 10 and 11 except column 5, and an upright I  *)
(* hard-dropped into column 5: its lock clears the 9th and 10th row.        *)
ScriptLevelC ==
  Place(0, -3, LevelJs[4]) \o Place(0, -2, LevelJs[4])
    \o Place(0, 3, LevelJs[4]) \o Place(1, 4, LevelJs[4])
    \o Place(1, -4, IdentityJs) \o Place(2, -1, IdentityJs)
    \o Place(1, 2, IdentityJs) \o <<OpRotate("clockwise"), OpHardDrop>>

StartSingle == After(ScriptSingle)

StartDouble == After(ScriptDouble)

StartTriple == After(ScriptTripleOf(FALSE))

StartCombo == After(ScriptComboOf(FALSE, FALSE))

StartComboSpecial == After(ScriptComboOf(FALSE, TRUE))

StartComboBoost == After(ScriptComboOf(TRUE, FALSE))

StartComboSpecialBoost == After(ScriptComboOf(TRUE, TRUE))

StartLevelA == After(ScriptLevelA)

StartLevelB == AfterFrom(StartLevelA, ScriptLevelB)

StartLevel == AfterFrom(StartLevelB, ScriptLevelC)

ScoreStarts ==
  { StartSingle, StartDouble, StartTriple, StartQuad, StartCombo,
    StartComboSpecial, StartComboBoost, StartComboSpecialBoost, StartLevel }

InitScore ==
  /\ \E start \in ScoreStarts : game = start.game /\ lastOp = start.lastOp
  /\ steps = 0
  /\ probe = NoProbe

SpecScore == InitScore /\ [][Next]_vars

(* The lock events among the events a tick returned. *)
LocksOf(op) == IF op.name = "tick" THEN EventsOf(op.ret.events, "lock") ELSE <<>>

(* The base points of the score table for n cleared lines. *)
BasePoints(n) ==
  CASE n = 1 -> 100 [] n = 2 -> 300 [] n = 3 -> 500 [] n = 4 -> 800 [] OTHER -> 0

(* The combo bonus of a lock that leaves the combo counter at combo. *)
ComboBonus(combo) == IF combo > 1 THEN 50 * (combo - 1) ELSE 0

(* The points the lock of this step awarded: the growth of the score less   *)
(* the soft-drop reward of the same tick.                                   *)
LockAward == game'.score - game.score - SoftDropAward(game, lastOp'.arg)

(* C11: a lock that clears n >= 1 lines awards (base(n) + combo bonus),     *)
(* doubled when the special multiplier applies (the combo bonus doubled as  *)
(* well as the base points), and doubled again when the boost is active.    *)
C11_SpecialDoublesBaseAndCombo ==
  [][\A i \in 1..Len(LocksOf(lastOp')) :
       LocksOf(lastOp')[i].linesCleared >= 1 =>
         LockAward =
           (BasePoints(LocksOf(lastOp')[i].linesCleared) + ComboBonus(game'.combo))
             * (IF LocksOf(lastOp')[i].specialMultiplier THEN 2 ELSE 1)
             * (IF game'.activeEffects.boost > 0 THEN 2 ELSE 1)]_vars

(* C12: a lock that clears no line leaves combo = 0 and awards nothing; a   *)
(* lock that clears n >= 1 lines adds 1 to combo and, with neither the      *)
(* special multiplier nor the boost, awards the base points 100, 300, 500   *)
(* or 800 of n = 1, 2, 3, 4 plus 50 x (combo - 1) when the new combo is     *)
(* above 1; a call that locks nothing leaves combo as it is (reset makes it *)
(* 0). The first clear of a game, of 1 row, adds exactly 100 and leaves     *)
(* combo = 1.                                                               *)
C12_BasePointsAndCombo ==
  [][/\ \A i \in 1..Len(LocksOf(lastOp')) :
          \A n \in {LocksOf(lastOp')[i].linesCleared} :
            /\ n = 0 => game'.combo = 0 /\ LockAward = 0
            /\ n >= 1 => game'.combo = game.combo + 1
            /\ (/\ n >= 1
                /\ ~LocksOf(lastOp')[i].specialMultiplier
                /\ game'.activeEffects.boost = 0) =>
                 LockAward = BasePoints(n) + ComboBonus(game'.combo)
            /\ (/\ n = 1 /\ game.linesCleared = 0
                /\ ~LocksOf(lastOp')[i].specialMultiplier
                /\ game'.activeEffects.boost = 0) =>
                 LockAward = 100 /\ game'.combo = 1
     /\ LocksOf(lastOp') = <<>> =>
          game'.combo = (IF lastOp'.name = "reset" THEN 0 ELSE game.combo)]_vars

(* A tick locked a piece that cleared 1 line right after another clear,     *)
(* with no multiplier: the combo is 2.                                      *)
C12_Witness ==
  /\ game.combo = 2
  /\ game.activeEffects.boost = 0
  /\ \E i \in 1..Len(LocksOf(lastOp)) :
       /\ LocksOf(lastOp)[i].linesCleared = 1
       /\ ~LocksOf(lastOp)[i].specialMultiplier

(* The rows the lock of this step removed from the board, 0 when the step   *)
(* locks no piece.                                                          *)
RowsRemovedByLock == IF LocksOf(lastOp') = <<>> THEN 0 ELSE RowsRemoved

(* C13: before and after every call level = 1 + floor(linesCleared / 10),   *)
(* and linesCleared is 0 after reset and otherwise grows by the rows the    *)
(* call's lock removed: a call that locks nothing, the bomb item included,  *)
(* leaves it as it is.                                                      *)
C13_LevelFromLockedLines ==
  [][/\ game.level = 1 + (game.linesCleared \div 10)
     /\ game'.level = 1 + (game'.linesCleared \div 10)
     /\ game'.linesCleared =
          (IF lastOp'.name = "reset" THEN 0
           ELSE game.linesCleared + RowsRemovedByLock)]_vars

(* A lock brought the lines of the game to 10 and the level to 2. *)
C13_Witness ==
  /\ game.linesCleared >= 10 /\ game.level = 2
  /\ LocksOf(lastOp) # <<>>

(* ------------------------------------------------------------------ *)
(* The soft-drop reward in double precision (specification              *)
(* SpecSoftDrop). deltaSeconds and softDropScoreAccumulator are         *)
(* JavaScript numbers, IEEE 754 doubles: a sum is rounded to 53         *)
(* significant bits, ties to even. A double d with 0 <= d < 2 that is   *)
(* a multiple of 2^-58 is the pair [hi, lo] of value                    *)
(* (hi * 2^30 + lo) * 2^-58, 0 <= lo < 2^30. The game model above       *)
(* counts time in quarter seconds, where no sum is rounded.             *)
(* ------------------------------------------------------------------ *)
Limb == 2^30

Dbl(hi, lo) == [hi |-> hi, lo |-> lo]

DblZero == Dbl(0, 0)

(* SOFT_DROP_REWARD_INTERVAL = 0.5 = 2^57 * 2^-58. *)
DblInterval == Dbl(2^27, 0)

DblGe(a, b) == a.hi > b.hi \/ (a.hi = b.hi /\ a.lo >= b.lo)

(* a + b in the reals. *)
ExactAdd(a, b) == Dbl(a.hi + b.hi + ((a.lo + b.lo) \div Limb), (a.lo + b.lo) % Limb)

(* a - b in the reals, for a >= b. *)
ExactSub(a, b) ==
  IF a.lo >= b.lo THEN Dbl(a.hi - b.hi, a.lo - b.lo)
  ELSE Dbl(a.hi - b.hi - 1, a.lo + Limb - b.lo)

(* The distance between neighbouring doubles at the size of a, in units of  *)
(* 2^-58: 2^-52 in [1, 2), 2^-53 in [1/2, 1), and so on down to the unit.   *)
Quantum(a) ==
  CASE a.hi >= 2^28 -> 64
    [] a.hi >= 2^27 -> 32
    [] a.hi >= 2^26 -> 16
    [] a.hi >= 2^25 -> 8
    [] a.hi >= 2^24 -> 4
    [] a.hi >= 2^23 -> 2
    [] OTHER -> 1

(* The double nearest to a, the one with the even last bit on a tie. *)
RoundToDouble(a) ==
  LET q == Quantum(a)
      down == a.lo - (a.lo % q)
      up == \/ 2 * (a.lo % q) > q
            \/ 2 * (a.lo % q) = q /\ (down \div q) % 2 = 1
      lo == IF up THEN down + q ELSE down
  IN IF lo = Limb THEN Dbl(a.hi + 1, 0) ELSE Dbl(a.hi, lo)

(* a + b as the program computes it. *)
DblAdd(a, b) == RoundToDouble(ExactAdd(a, b))

(* The fields of the Game that the soft-drop reward reads and writes. *)
SoftGame(active, piece, accumulator, score) ==
  [ softDropActive |-> active, activePiece |-> piece,
    softDropScoreAccumulator |-> accumulator, score |-> score ]

(* The loop of updateSoftDropBonus; the difference of two doubles a >= 1/2  *)
(* and 1/2 is a double, so the subtraction does not round.                  *)
RECURSIVE softDropRewardLoopDouble(_)
softDropRewardLoopDouble(s) ==
  IF DblGe(s.softDropScoreAccumulator, DblInterval)
  THEN softDropRewardLoopDouble(
         [addSoftDropPoints(s, SOFT_DROP_REWARD_POINTS) EXCEPT
            !.softDropScoreAccumulator = ExactSub(s.softDropScoreAccumulator, DblInterval)])
  ELSE s

(* updateSoftDropBonus that keeps no remainder after a reward. *)
updateSoftDropBonusNoRemainder(s, deltaSeconds) ==
  IF ~s.softDropActive \/ s.activePiece = None
  THEN [s EXCEPT !.softDropScoreAccumulator = DblZero]
  ELSE LET t == [s EXCEPT !.softDropScoreAccumulator =
                            DblAdd(s.softDropScoreAccumulator, deltaSeconds)]
       IN IF DblGe(t.softDropScoreAccumulator, DblInterval)
          THEN [addSoftDropPoints(t, SOFT_DROP_REWARD_POINTS) EXCEPT
                  !.softDropScoreAccumulator = DblZero]
          ELSE t

updateSoftDropBonusDouble(s, deltaSeconds) ==
  IF ~s.softDropActive \/ s.activePiece = None
  THEN [s EXCEPT !.softDropScoreAccumulator = DblZero]
  ELSE softDropRewardLoopDouble(
         [s EXCEPT !.softDropScoreAccumulator =
                     DblAdd(s.softDropScoreAccumulator, deltaSeconds)])

setSoftDropDouble(s, active) ==
  IF ~active
  THEN [s EXCEPT !.softDropActive = active, !.softDropScoreAccumulator = DblZero]
  ELSE [s EXCEPT !.softDropActive = active]

MaxSoftTicks == 6

(* The values of deltaSeconds tried: the doubles nearest to 0.05 and 0.1,   *)
(* 3602879701896397 * 2^-56 and * 2^-55, and 1/4 and 3/4.                   *)
SoftDeltas ==
  { Dbl(13421772, 858993460), Dbl(26843545, 644245096), Dbl(2^26, 0), Dbl(3 * 2^26, 0) }

(* soft: the Game's fields. Since soft-drop was engaged with a piece in     *)
(* play: T the sum in the reals of the deltaSeconds of the ticks, awarded   *)
(* the points they added, exact whether no sum was rounded.                 *)
SoftProbe(soft, T, awarded, exact, ticks) ==
  [ kind |-> "softDrop", soft |-> soft, T |-> T, awarded |-> awarded,
    exact |-> exact, ticks |-> ticks ]

SoftInit ==
  /\ game = NewGame /\ lastOp = NoOp /\ steps = 0
  /\ \E piece \in {None, StartQuad.game.activePiece} :
       probe = SoftProbe(SoftGame(FALSE, piece, DblZero, 0), DblZero, 0, TRUE, 0)

SoftTick ==
  /\ probe.kind = "softDrop" /\ probe.ticks < MaxSoftTicks
  /\ \E deltaSeconds \in SoftDeltas :
       \E after \in {updateSoftDropBonusDouble(probe.soft, deltaSeconds)} :
         probe' =
           IF probe.soft.softDropActive /\ probe.soft.activePiece # None
           THEN SoftProbe(after, ExactAdd(probe.T, deltaSeconds),
                          probe.awarded + (after.score - probe.soft.score),
                          probe.exact /\ DblAdd(probe.soft.softDropScoreAccumulator, deltaSeconds)
                                           = ExactAdd(probe.soft.softDropScoreAccumulator, deltaSeconds),
                          probe.ticks + 1)
           ELSE SoftProbe(after, DblZero, 0, TRUE, probe.ticks + 1)
  /\ UNCHANGED <<game, lastOp, steps>>

SoftSet ==
  /\ probe.kind = "softDrop"
  /\ \E active \in BOOLEAN :
       probe' =
         IF active /\ probe.soft.softDropActive
         THEN [probe EXCEPT !.soft = setSoftDropDouble(probe.soft, active)]
         ELSE SoftProbe(setSoftDropDouble(probe.soft, active), DblZero, 0, TRUE, probe.ticks)
  /\ UNCHANGED <<game, lastOp, steps>>

SpecSoftDrop == SoftInit /\ [][SoftTick \/ SoftSet]_vars

(* The whole 0.5 s intervals in T. *)
IntervalsIn(T) == T.hi \div DblInterval.hi

(* C14: while soft-drop is engaged and a piece is in play, the points the   *)
(* ticks added are 50 x floor(T / 0.5) for T the sum of their deltaSeconds, *)
(* however T is split; when soft-drop is off, no partial interval is kept.  *)
C14_SoftDropBonusByTime ==
  probe.kind = "softDrop" =>
    /\ (probe.soft.softDropActive /\ probe.soft.activePiece # None) =>
         probe.awarded = SOFT_DROP_REWARD_POINTS * IntervalsIn(probe.T)
    /\ ~probe.soft.softDropActive => probe.soft.softDropScoreAccumulator = DblZero

(* C14 as amended: the points are 50 x floor(T / 0.5) when no sum of the    *)
(* accumulator was rounded (deltaSeconds in quarter seconds), and within    *)
(* one reward of it otherwise; when soft-drop is off, no partial interval   *)
(* is kept.                                                                 *)
C14_SoftDropBonusUnrounded ==
  probe.kind = "softDrop" =>
    /\ (probe.soft.softDropActive /\ probe.soft.activePiece # None) =>
         /\ probe.exact =>
              /\ probe.awarded = SOFT_DROP_REWARD_POINTS * IntervalsIn(probe.T)
              /\ ExactAdd(probe.soft.softDropScoreAccumulator,
                          Dbl(IntervalsIn(probe.T) * DblInterval.hi, 0)) = probe.T
         /\ probe.awarded - SOFT_DROP_REWARD_POINTS * IntervalsIn(probe.T)
              \in {-SOFT_DROP_REWARD_POINTS, 0, SOFT_DROP_REWARD_POINTS}
    /\ ~probe.soft.softDropActive => probe.soft.softDropScoreAccumulator = DblZero

(* Six ticks of a quarter second, 1.5 s, added 150 points. *)
C14_Witness ==
  /\ probe.kind = "softDrop" /\ probe.exact /\ probe.ticks = 6
  /\ probe.soft.softDropActive /\ probe.soft.activePiece # None
  /\ probe.T = Dbl(3 * 2^27, 0)
  /\ probe.awarded = 150

(* ------------------------------------------------------------------ *)
(* The time of a tick split in two (specification Spec).                *)
(* ------------------------------------------------------------------ *)
(* The quarter seconds a and b of the two ticks. *)
SplitDeltas == {1, 2}

(* What is compared after the ticks: the piece, the lock timer, the locks   *)
(* the ticks reported, the board, the score and the effects.                *)
TickView(g, events) ==
  [ activePiece |-> g.activePiece, lockTimerMs |-> g.lockTimerMs,
    locks |-> Len(EventsOf(events, "lock")),
    board |-> g.board, score |-> g.score, activeEffects |-> g.activeEffects ]

(* The view after one more tick of dq on the result first of a tick. *)
ViewAfterTick(first, dq) ==
  TickView(tick(first.g, dq, Rnd0).g, first.ret.events \o tick(first.g, dq, Rnd0).ret.events)

(* tick(a / 4) and then tick(b / 4) on g. *)
TwoTicks(g, a, b) == ViewAfterTick(tick(g, a, Rnd0), b)

(* tick((a + b) / 4) on g. *)
OneTick(g, a, b) == ViewAfterTick([g |-> g, ret |-> [events |-> <<>>]], a + b)

(* C15: in a running game, tick(a) followed by tick(b) leaves the piece,    *)
(* the lock timer, the locks made, the board, the score and the effects as  *)
(* the single tick(a + b) does.                                             *)
C15_FrameRateIndependence ==
  (~game.isPaused /\ ~game.isGameOver) =>
    \A a \in SplitDeltas, b \in SplitDeltas : TwoTicks(game, a, b) = OneTick(game, a, b)

(* ------------------------------------------------------------------ *)
(* Lock delay and moves (specification Spec).                           *)
(* ------------------------------------------------------------------ *)
(* The Game at the moment a running tick calls processLockDelay. *)
TickMoment(g, dq, rnd) ==
  advanceGravity(updateSoftDropBonus(updateActiveEffects(g, dq * 250), dq * 250), dq, rnd)

(* The active piece of g has an obstruction one row below. *)
Resting(g) ==
  /\ g.activePiece # None
  /\ hasCollision(g.board, g.activePiece[1], Some(P(0, 1)))

(* The draws with which the tick of dq quarter seconds takes g to h. *)
TickDraws(g, dq, h) == {rnd \in RndsFor(g, "tick", dq, "") : tick(g, dq, rnd).g = h}

(* C16: a call other than tick adds no cell to the board and reports no     *)
(* lock. A tick locks at most one piece, and locks one only if the game is  *)
(* running and, when the tick comes to the lock delay, the piece rests on   *)
(* an obstruction one row below and its timer plus the tick's time is at    *)
(* least lockDelayMs. A running tick that then finds the piece not resting  *)
(* leaves the lock timer null.                                              *)
C16_LockOnlyInTickAfterDelay ==
  [][/\ lastOp'.name # "tick" =>
          /\ Cells(game'.board) <= Cells(game.board)
          /\ EventsOf(game'.pendingEvents, "lock") = <<>>
     /\ lastOp'.name = "tick" =>
          /\ Len(LocksOf(lastOp')) <= 1
          /\ Cells(game'.board) <= Cells(game.board) + 4
          /\ (LocksOf(lastOp') # <<>> \/ game'.board # game.board) =>
               /\ ~game.isPaused /\ ~game.isGameOver
               /\ \A rnd \in TickDraws(game, lastOp'.arg, game') :
                    /\ Resting(TickMoment(game, lastOp'.arg, rnd))
                    /\ TickMoment(game, lastOp'.arg, rnd).lockTimerMs # None
                    /\ TickMoment(game, lastOp'.arg, rnd).lockTimerMs[1] + lastOp'.arg * 250
                         >= lockDelayMs
          /\ (~game.isPaused /\ ~game.isGameOver) =>
               \A rnd \in TickDraws(game, lastOp'.arg, game') :
                 (/\ TickMoment(game, lastOp'.arg, rnd).activePiece # None
                  /\ ~Resting(TickMoment(game, lastOp'.arg, rnd)))
                   => game'.lockTimerMs = None]_vars

(* A tick has locked a piece whose timer had been running before it. *)
C16_Witness ==
  /\ lastOp.name = "tick" /\ lastOp.arg > 0
  /\ LocksOf(lastOp) # <<>>
  /\ game.activePiece = None /\ game.lockTimerMs = None

(* C17: after a moveHorizontal that returns true and leaves the piece       *)
(* resting on an obstruction the lock timer is 0; a moveHorizontal that     *)
(* returns false leaves the piece, the lock timer and the fall accumulator  *)
(* as they were.                                                            *)
C17_MoveRestartsLockDelay ==
  [][lastOp'.name = "moveHorizontal" =>
       /\ (lastOp'.ret.ok /\ Resting(game')) => game'.lockTimerMs = Some(0)
       /\ ~lastOp'.ret.ok =>
            /\ game'.activePiece = game.activePiece
            /\ game'.lockTimerMs = game.lockTimerMs
            /\ game'.fallAccumulator = game.fallAccumulator]_vars

(* ------------------------------------------------------------------ *)
(* A player who keeps moving the resting piece (specification           *)
(* SpecSlide): from a fresh game whose first piece was dropped to the   *)
(* floor, a tick of a quarter second and a successful horizontal move   *)
(* or rotation of the resting piece take turns.                         *)
(* ------------------------------------------------------------------ *)
MaxSlideSteps == 8

(* The tick of the player's game loop, in quarter seconds. *)
SlideDelta == 1

SlideStarts ==
  { After(<<OpReset(js, sp.isSpecial, sp.index), OpHardDrop>>) :
      js \in GameJs \cup {<<0, 1, 2, 0, 3, 5>>, <<1, 2, 0, 0, 2, 1>>}, sp \in SpawnDraws }

SlideInit ==
  /\ \E start \in SlideStarts : game = start.game /\ lastOp = start.lastOp
  /\ steps = 0
  /\ probe = NoProbe

SlideCall(op) ==
  /\ steps < MaxSlideSteps
  /\ \E r \in {Do(game, op)} :
       /\ game' = r.g
       /\ lastOp' = [name |-> op.name, arg |-> op.arg, dir |-> op.dir, ret |-> r.ret]
  /\ steps' = steps + 1
  /\ UNCHANGED probe

SlideTick ==
  /\ lastOp.name # "tick"
  /\ \E rnd \in RndsFor(game, "tick", SlideDelta, "") : SlideCall(Op("tick", SlideDelta, "", rnd))

SlideMove ==
  /\ lastOp.name = "tick" /\ Resting(game)
  /\ \E direction \in {-1, 1} :
       /\ Do(game, OpMove(direction)).ret.ok
       /\ SlideCall(OpMove(direction))

SlideRotate ==
  /\ lastOp.name = "tick" /\ Resting(game)
  /\ \E direction \in {"clockwise", "counterclockwise"} :
       /\ Do(game, OpRotate(direction)).ret.ok
       /\ Resting(Do(game, OpRotate(direction)).g)
       /\ SlideCall(OpRotate(direction))

SpecSlide == SlideInit /\ [][SlideTick \/ SlideMove \/ SlideRotate]_vars

(* C18: however long the player of SpecSlide goes on, the piece is not      *)
(* locked: the board stays empty, the piece stays in play and resting, no   *)
(* tick reports a lock, the lock timer is 0 after a move and below          *)
(* lockDelayMs after a tick, and after a tick a horizontal move succeeds,   *)
(* so the player can go on.                                                 *)
C18_SlidingDefersLock ==
  /\ game.board = EmptyGrid /\ ~game.isGameOver
  /\ Resting(game)
  /\ LocksOf(lastOp) = <<>>
  /\ game.lockTimerMs # None
  /\ lastOp.name # "tick" => game.lockTimerMs = Some(0)
  /\ lastOp.name = "tick" =>
       /\ game.lockTimerMs[1] < lockDelayMs
       /\ \E direction \in {-1, 1} : Do(game, OpMove(direction)).ret.ok

(* Four ticks, 1 s in all and twice the lock delay, each followed by a move *)
(* or a rotation, and the piece is still in play.                           *)
C18_Witness ==
  /\ steps = 8 /\ lastOp.name \in {"moveHorizontal", "rotate"} /\ lastOp.ret.ok
  /\ game.activePiece # None /\ game.board = EmptyGrid

(* The piece of g moved down by i rows collides. *)
BlockedAt(g, i) == hasCollision(g.board, g.activePiece[1], Some(P(0, i)))

(* C19: hardDrop with an active piece returns the largest k >= 0 such that  *)
(* the piece moved down by 1..k rows never collides, leaves the piece k     *)
(* rows lower with x, rotation and blocks as before and resting, adds 100   *)
(* to the score if k > 0 and nothing if k = 0, and sets the lock timer to   *)
(* 0; with no active piece it returns 0 and leaves the score.               *)
C19_HardDropToRest ==
  [][lastOp'.name = "hardDrop" =>
       IF game.activePiece = None
       THEN lastOp'.ret.n = 0 /\ game'.score = game.score /\ game'.activePiece = None
       ELSE /\ lastOp'.ret.n >= 0
            /\ \A i \in 1..lastOp'.ret.n : ~BlockedAt(game, i)
            /\ BlockedAt(game, lastOp'.ret.n + 1)
            /\ game'.activePiece = Some(movePiece(game.activePiece[1], P(0, lastOp'.ret.n)))
            /\ Resting(game')
            /\ game'.score = game.score + (IF lastOp'.ret.n > 0 THEN 100 ELSE 0)
            /\ game'.lockTimerMs = Some(0)]_vars

(* A hardDrop of this run moved a piece by more than one row. *)
C19_Witness ==
  /\ steps > 0
  /\ lastOp.name = "hardDrop" /\ lastOp.ret.n > 1
  /\ game.lockTimerMs = Some(0) /\ Resting(game)
  /\ game.score >= 100

(* ------------------------------------------------------------------ *)
(* hardDrop followed only by ticks (specification SpecDrop). The probe  *)
(* keeps the history: whether the game was fresh (reset, nothing else), *)
(* whether hardDrop was called, the score and the piece it found and    *)
(* the rows it dropped, and since then the quarter seconds of the ticks *)
(* and the lock events they returned.                                   *)
(* ------------------------------------------------------------------ *)
MaxDropQuarters == 6

FreshStarts ==
  { After(<<OpReset(js, sp.isSpecial, sp.index)>>) :
      js \in GameJs \cup {<<0, 1, 2, 0, 3, 5>>, <<1, 2, 0, 0, 2, 1>>}, sp \in SpawnDraws }

DropStarts == FreshStarts \cup Starts \cup ScoreStarts

DropProbe(fresh, dropped, scoreBefore, piece, rows, elapsed, locks) ==
  [ kind |-> "drop", fresh |-> fresh, dropped |-> dropped, scoreBefore |-> scoreBefore,
    piece |-> piece, rows |-> rows, elapsed |-> elapsed, locks |-> locks ]

DropInit ==
  /\ \E start \in DropStarts :
       /\ game = start.game /\ lastOp = start.lastOp
       /\ probe = DropProbe(start \in FreshStarts, FALSE, 0, None, 0, 0, 0)
  /\ steps = 0

DropHard ==
  /\ probe.kind = "drop" /\ ~probe.dropped
  /\ \E rnd \in RndsFor(game, "hardDrop", 0, "") :
       \E r \in {Do(game, Op("hardDrop", 0, "", rnd))} :
         /\ game' = r.g
         /\ lastOp' = [name |-> "hardDrop", arg |-> 0, dir |-> "", ret |-> r.ret]
         /\ probe' = DropProbe(probe.fresh, TRUE, game.score, game.activePiece, r.ret.n, 0, 0)
  /\ UNCHANGED steps

DropTick ==
  /\ probe.kind = "drop" /\ probe.dropped /\ probe.elapsed < MaxDropQuarters
  /\ \E dq \in Deltas :
       \E rnd \in RndsFor(game, "tick", dq, "") :
         \E r \in {Do(game, Op("tick", dq, "", rnd))} :
           /\ game' = r.g
           /\ lastOp' = [name |-> "tick", arg |-> dq, dir |-> "", ret |-> r.ret]
           /\ probe' = [probe EXCEPT !.elapsed = @ + dq,
                                     !.locks = @ + Len(EventsOf(r.ret.events, "lock"))]
  /\ UNCHANGED steps

SpecDrop == DropInit /\ [][DropHard \/ DropTick]_vars

(* The cells of the board that are not empty. *)
FilledCells(board) ==
  {c \in (1..Len(board)) \X (1..BOARD_WIDTH) : board[c[1]][c[2]] # NullCell}

(* The cells (row, column) that piece, moved down by rows, covers. *)
PieceCells(piece, rows) ==
  { <<piece.position.y + piece.blocks[i].y + rows + 1, piece.position.x + piece.blocks[i].x + 1>> :
      i \in 1..Len(piece.blocks) }

(* C20: hardDrop leaves the board and the pending events as they are. On a  *)
(* fresh game, hardDrop followed by ticks only: while the ticks' time is    *)
(* below lockDelayMs no lock event was returned, the piece is in play and   *)
(* the lock timer is that time; from the tick that brings the time to       *)
(* lockDelayMs on, exactly one lock event was returned, the board holds the *)
(* cells of the dropped piece and no other, the game is not over and the    *)
(* score is at least 100 above the score before the hardDrop.               *)
C20_HardDropDefersLock ==
  [][/\ lastOp'.name = "hardDrop" =>
          /\ game'.board = game.board
          /\ game'.pendingEvents = game.pendingEvents
          /\ EventsOf(game'.pendingEvents, "lock") = <<>>
     /\ (probe'.fresh /\ probe'.dropped) =>
          IF probe'.elapsed * 250 < lockDelayMs
          THEN /\ probe'.locks = 0
               /\ game'.board = EmptyGrid
               /\ game'.activePiece = Some(movePiece(probe'.piece[1], P(0, probe'.rows)))
               /\ game'.lockTimerMs = Some(probe'.elapsed * 250)
          ELSE /\ probe'.locks = 1
               /\ FilledCells(game'.board) = PieceCells(probe'.piece[1], probe'.rows)
               /\ ~game'.isGameOver
               /\ game'.score >= probe'.scoreBefore + 100]_vars

(* On a fresh game the hard-dropped piece was locked by a tick, and ticks   *)
(* went on after it.                                                        *)
C20_Witness ==
  /\ probe.kind = "drop" /\ probe.fresh /\ probe.dropped
  /\ probe.locks = 1 /\ probe.elapsed >= 4
  /\ game.activePiece # None

(* ------------------------------------------------------------------ *)
(* Hold (specification SpecHold): games with a piece held and hold      *)
(* enabled, on a low stack and on a stack that reaches the top, and     *)
(* games with nothing held.                                             *)
(* ------------------------------------------------------------------ *)
(* The first piece held, the second dropped and locked: the third piece has *)
(* just spawned, the first is held and hold is enabled.                     *)
StartHeld == After(<<OpReset(IdentityJs, FALSE, 0), OpHold, OpHardDrop, OpTick(2)>>)

(* The same with special pieces. *)
StartHeldSpecial ==
  After(<<OpReset(IdentityJs, TRUE, 2), Op("hold", 0, "", Rnd(IdentityJs, TRUE, 1, 0, Rnd0.qs)),
          OpHardDrop, OpTickRnd(2, TRUE, 3, 0)>>)

StartFresh == After(<<OpReset(IdentityJs, TRUE, 1)>>)

HoldStarts == {StartHeld, StartHeldSpecial, StartFresh, StartTopA, StartTopB}

InitHold ==
  /\ \E start \in HoldStarts : game = start.game /\ lastOp = start.lastOp
  /\ steps = 0
  /\ probe = NoProbe

SpecHold == InitHold /\ [][Next]_vars

(* The piece hold would bring into play, the held one or the next of the    *)
(* queue, collides where it spawns.                                         *)
IncomingBlocked(g) ==
  IF g.holdPiece # None THEN IsSpawnBlocked(g.board, g.holdPiece[1].type)
  ELSE \E t \in NextTypes(g) : IsSpawnBlocked(g.board, t)

(* C21: hold on a piece with hold enabled returns true; hold with hold      *)
(* used, or with no active piece, returns false and changes nothing; hold   *)
(* is enabled again by a lock only.                                         *)
C21_HoldOncePerPiece ==
  [][/\ lastOp'.name = "hold" =>
          /\ (game.activePiece # None /\ ~game.holdUsed) => lastOp'.ret.ok
          /\ (game.activePiece = None \/ game.holdUsed) => (~lastOp'.ret.ok /\ game' = game)
     /\ (game.holdUsed /\ ~game'.holdUsed) => LocksOf(lastOp') # <<>>]_vars

(* C21 as amended: hold on a piece with hold enabled returns true and uses  *)
(* hold up, unless the piece it would bring into play collides where it     *)
(* spawns: then it returns false and the game is over with no active piece. *)
(* hold with hold used, or with no active piece, returns false and changes  *)
(* nothing. Hold is used up by hold only and enabled again by a lock or by  *)
(* reset only.                                                              *)
C21_HoldOncePerPieceUnlessBlocked ==
  [][/\ lastOp'.name = "hold" =>
          /\ (game.activePiece # None /\ ~game.holdUsed) =>
               /\ game'.holdUsed
               /\ lastOp'.ret.ok <=> ~IncomingBlocked(game)
               /\ lastOp'.ret.ok => (game'.activePiece # None /\ game'.holdPiece # None)
               /\ ~lastOp'.ret.ok => (game'.isGameOver /\ game'.activePiece = None)
          /\ (game.activePiece = None \/ game.holdUsed) => (~lastOp'.ret.ok /\ game' = game)
     /\ (game.holdUsed /\ ~game'.holdUsed) =>
          (lastOp'.name = "reset" \/ LocksOf(lastOp') # <<>>)
     /\ (~game.holdUsed /\ game'.holdUsed) => lastOp'.name = "hold"
     /\ LocksOf(lastOp') # <<>> => ~game'.holdUsed]_vars

(* A second hold on the same piece was refused after the first had          *)
(* succeeded.                                                               *)
C21_Witness ==
  /\ steps > 1
  /\ lastOp.name = "hold" /\ ~lastOp.ret.ok
  /\ game.holdUsed /\ game.activePiece # None /\ ~game.isGameOver
  /\ game.holdPiece # None

(* piece is a piece of type t as createActivePiece makes it by default: at  *)
(* the spawn position of t, with rotation 0.                                *)
AtSpawn(piece, t) ==
  /\ piece.type = t /\ piece.rotation = 0
  /\ piece.position = SPAWN_POSITION[t]
  /\ piece.blocks = TETROMINO_SHAPES[t][1]

(* C22: a hold that returns true makes type and isSpecial of the piece that *)
(* was active the held piece and leaves the board, inventory, effects,      *)
(* score, lines, level and combo as they were. With a piece held before,    *)
(* the active piece is then of the held type, at its spawn position with    *)
(* rotation 0 and with the held isSpecial, and the next queue is as it      *)
(* was; with nothing held before, the active piece is of the type at the    *)
(* head of the next queue, which leaves the queue.                          *)
C22_HoldSwaps ==
  [][(lastOp'.name = "hold" /\ lastOp'.ret.ok) =>
       /\ game'.holdPiece = Some([type |-> game.activePiece[1].type,
                                  isSpecial |-> game.activePiece[1].isSpecial])
       /\ game'.board = game.board /\ game'.inventory = game.inventory
       /\ game'.activeEffects = game.activeEffects
       /\ game'.score = game.score /\ game'.linesCleared = game.linesCleared
       /\ game'.level = game.level /\ game'.combo = game.combo
       /\ game'.activePiece # None
       /\ IF game.holdPiece # None
          THEN /\ AtSpawn(game'.activePiece[1], game.holdPiece[1].type)
               /\ game'.activePiece[1].isSpecial = game.holdPiece[1].isSpecial
               /\ game'.nextQueue = game.nextQueue
          ELSE /\ AtSpawn(game'.activePiece[1], Head(game.nextQueue))
               /\ Len(game'.nextQueue) >= Len(game.nextQueue) - 1
               /\ SubSeq(game'.nextQueue, 1, Len(game.nextQueue) - 1) = Tail(game.nextQueue)]_vars

(* A hold swapped a special held piece in for a special active piece: no    *)
(* spawn is pending and the queue of the game is untouched.                 *)
C22_Witness ==
  /\ steps = 1 /\ lastOp.name = "hold" /\ lastOp.ret.ok
  /\ game.pendingEvents = <<>>
  /\ game.activePiece # None /\ game.activePiece[1].isSpecial
  /\ game.holdPiece # None /\ game.holdPiece[1].isSpecial

(***************************************************************************)
(* Games with items in the inventory.  The scripts continue the triple      *)
(* clear with special pieces: the I (triple, item i1), the T (single, item  *)
(* i2), a vertical I completing the two bottom rows (item i3) and an S      *)
(* completing the bottom row while the inventory is full.                   *)
(***************************************************************************)
ScriptItemsOne(i1) ==
  ScriptTripleOf(TRUE)
    \o <<OpTickDraw(2, IdentityJs, TRUE, 3, i1)>>
    \o Times(2, <<OpRotate("clockwise")>>) \o Times(2, <<OpMove(1)>>)
    \o <<OpHardDrop>>

ScriptItemsTwo(i2) ==
  <<OpTickDraw(2, <<0, 1, 1, 2, 0, 1>>, FALSE, 0, i2)>>
    \o Place(0, -5, IdentityJs) \o Place(1, 0, IdentityJs)
    \o Place(0, 3, IdentityJs)
    \o Times(3, <<OpMove(-1)>>)
    \o <<OpHardDrop, OpTickDraw(2, IdentityJs, TRUE, 3, 0)>>
    \o <<OpRotate("clockwise")>> \o Times(4, <<OpMove(1)>>)
    \o <<OpHardDrop>>

ScriptItemsLast ==
  Place(0, -3, IdentityJs)
    \o <<OpRotate("clockwise"), OpMove(-1)>>
    \o <<OpHardDrop, OpTickDraw(2, IdentityJs, TRUE, 2, 0)>>
    \o Times(3, <<OpMove(1)>>)
    \o <<OpHardDrop>>

ScriptItemsFull(i3) == <<OpTickDraw(2, IdentityJs, FALSE, 0, i3)>> \o ScriptItemsLast

(* The third item is a freeze; the first freeze is used as soon as the next *)
(* piece has spawned, and 8.75 s pass before that piece is placed.          *)
ScriptItemsExpiring ==
  <<OpTickDraw(2, IdentityJs, FALSE, 0, 2), OpUseItem(0), OpTick(35)>> \o ScriptItemsLast

StartItemsOne(i1) == After(ScriptItemsOne(i1))

StartItemsTwo(i1, i2) ==
  CHOOSE end \in {AfterFrom(start, ScriptItemsTwo(i2)) : start \in {StartItemsOne(i1)}} : TRUE

StartItemsFull(i1, i2, i3) ==
  CHOOSE end \in {AfterFrom(start, ScriptItemsFull(i3)) : start \in {StartItemsTwo(i1, i2)}} : TRUE

StartItemsMixed == StartItemsFull(0, 1, 2)

StartItemsFreeze == StartItemsFull(2, 2, 3)

StartItemsBombs == StartItemsFull(0, 0, 0)

StartItemsExpiring ==
  CHOOSE end \in {AfterFrom(start, ScriptItemsExpiring) : start \in {StartItemsTwo(2, 3)}} : TRUE

ItemStarts == {StartItemsMixed, StartItemsBombs}

(* A game holding a bomb whose stack has an overhang: an L stands on the    *)
(* floor with its arm over the empty column 3, and an O has been dropped to *)
(* the floor two columns to the left of that column.                        *)
ScriptItemsCave ==
  <<OpTickDraw(2, <<0, 1, 1, 2, 0, 1>>, FALSE, 0, 1)>>
    \o Place(0, 3, IdentityJs) \o Place(0, 2, IdentityJs)
    \o Place(3, 0, IdentityJs)
    \o Times(4, <<OpMove(-1)>>) \o <<OpHardDrop>>

StartItemsCave ==
  CHOOSE end \in {AfterFrom(start, ScriptItemsCave) : start \in {StartItemsOne(0)}} : TRUE

InitCave ==
  /\ game = StartItemsCave.game /\ lastOp = StartItemsCave.lastOp
  /\ steps = 0
  /\ probe = NoProbe

SpecCave == InitCave /\ [][Next]_vars

EffectStarts == {StartItemsFreeze, StartItemsExpiring}

InitItems ==
  /\ \E start \in ItemStarts : game = start.game /\ lastOp = start.lastOp
  /\ steps = 0
  /\ probe = NoProbe

SpecItems == InitItems /\ [][Next]_vars

InitEffects ==
  /\ \E start \in EffectStarts : game = start.game /\ lastOp = start.lastOp
  /\ steps = 0
  /\ probe = NoProbe

SpecEffects == InitEffects /\ [][Next]_vars

(* What a useItem call leaves alone whatever the item is. *)
ItemKeeps(g, h) ==
  /\ h.activePiece = g.activePiece /\ h.holdPiece = g.holdPiece
  /\ h.holdUsed = g.holdUsed /\ h.bag = g.bag
  /\ h.linesCleared = g.linesCleared /\ h.level = g.level
  /\ h.combo = g.combo /\ h.maxCombo = g.maxCombo
  /\ h.isPaused = g.isPaused /\ h.isGameOver = g.isGameOver

(* C23: useItem(slotIndex) with slotIndex < 0 or slotIndex >= the length of *)
(* the inventory returns false and leaves inventory, board, next queue,     *)
(* effects and score as they were. With a valid index it returns true, the  *)
(* inventory loses exactly the item at that index (the others keep their    *)
(* order), and only the effect of that item is applied: a bomb leaves the   *)
(* next queue and the effects alone, a shuffle the board and the effects,   *)
(* freeze and boost the board, the next queue, the score and the other      *)
(* effect.                                                                  *)
C23_UseItemBySlot ==
  [][lastOp'.name = "useItem" =>
       IF lastOp'.arg < 0 \/ lastOp'.arg >= Len(game.inventory)
       THEN /\ ~lastOp'.ret.ok
            /\ game'.inventory = game.inventory /\ game'.board = game.board
            /\ game'.nextQueue = game.nextQueue
            /\ game'.activeEffects = game.activeEffects
            /\ game'.score = game.score
       ELSE /\ lastOp'.ret.ok
            /\ Len(game'.inventory) = Len(game.inventory) - 1
            /\ \A k \in 1..Len(game'.inventory) :
                 game'.inventory[k] =
                   game.inventory[IF k <= lastOp'.arg THEN k ELSE k + 1]
            /\ ItemKeeps(game, game')
            /\ \E item \in {game.inventory[lastOp'.arg + 1]} :
                 /\ item = "bomb" =>
                      /\ game'.nextQueue = game.nextQueue
                      /\ game'.activeEffects = game.activeEffects
                 /\ item = "shuffle" =>
                      /\ game'.board = game.board
                      /\ game'.activeEffects = game.activeEffects
                 /\ item = "freeze" =>
                      /\ game'.board = game.board /\ game'.nextQueue = game.nextQueue
                      /\ game'.score = game.score
                      /\ game'.activeEffects.boost = game.activeEffects.boost
                      /\ game'.activeEffects.freeze = EFFECT_DURATIONS.freeze
                 /\ item = "boost" =>
                      /\ game'.board = game.board /\ game'.nextQueue = game.nextQueue
                      /\ game'.score = game.score
                      /\ game'.activeEffects.freeze = game.activeEffects.freeze
                      /\ game'.activeEffects.boost = EFFECT_DURATIONS.boost]_vars

(* The middle item of three different items was used: the first and the     *)
(* last remain, in their order.                                             *)
C23_Witness ==
  /\ steps = 1 /\ lastOp.name = "useItem" /\ lastOp.arg = 1 /\ lastOp.ret.ok
  /\ game.inventory = <<"bomb", "freeze">>
  /\ game.activeEffects.freeze = 0

(* The rows (0-based) among the two bottom rows of a grid that hold a cell. *)
BottomRowsFilled(grid) ==
  { y \in {BOARD_TOTAL_HEIGHT - 1, BOARD_TOTAL_HEIGHT - 2} : ~isRowEmpty(grid[y + 1]) }

(* C24: a bomb removes the two bottom rows (11 and 10): every row above     *)
(* moves down by two and two empty rows enter at the top. The score grows   *)
(* by 200 for each of the two rows that held a cell, so it is unchanged     *)
(* when both were empty. linesCleared, level and combo are unchanged.       *)
C24_BombClearsBottomRows ==
  [][(/\ lastOp'.name = "useItem" /\ lastOp'.ret.ok
      /\ game.inventory[lastOp'.arg + 1] = "bomb") =>
       /\ game'.board =
            [r \in 1..BOARD_TOTAL_HEIGHT |->
               IF r <= 2 THEN [x \in 1..BOARD_WIDTH |-> NullCell] ELSE game.board[r - 2]]
       /\ game'.score =
            game.score + Cardinality(BottomRowsFilled(game.board)) * ITEM_BONUS_POINTS
       /\ game'.linesCleared = game.linesCleared
       /\ game'.level = game.level /\ game'.combo = game.combo]_vars

(* Three bombs in a row: the third found the board empty. *)
C24_Witness ==
  /\ steps = MaxSteps /\ lastOp.name = "useItem" /\ lastOp.ret.ok
  /\ game.inventory = <<>>
  /\ \A r \in 1..BOARD_TOTAL_HEIGHT : isRowEmpty(game.board[r])
  /\ game.activeEffects.freeze = 0 /\ game.activeEffects.boost = 0
  /\ game.nextQueue = <<"J", "Z", "L">>

(* How often a value occurs in a sequence. *)
Occurrences(seq, v) == Cardinality({ k \in 1..Len(seq) : seq[k] = v })

IsPermutationOf(a, b) ==
  /\ Len(a) = Len(b)
  /\ \A k \in 1..Len(b) : Occurrences(a, b[k]) = Occurrences(b, b[k])

(* C25: a shuffle replaces the next queue by a permutation of itself, adds  *)
(* exactly 200 to the score and leaves the active piece, the held piece,    *)
(* the board and the bag of the randomizer as they were.                    *)
C25_ShufflePermutesQueue ==
  [][(/\ lastOp'.name = "useItem" /\ lastOp'.ret.ok
      /\ game.inventory[lastOp'.arg + 1] = "shuffle") =>
       /\ IsPermutationOf(game'.nextQueue, game.nextQueue)
       /\ game'.score = game.score + ITEM_BONUS_POINTS
       /\ game'.activePiece = game.activePiece /\ game'.holdPiece = game.holdPiece
       /\ game'.board = game.board /\ game'.bag = game.bag]_vars

(* A shuffle moved the head of the next queue (J, Z, L before). *)
C25_Witness ==
  /\ steps = 1 /\ lastOp.name = "useItem" /\ lastOp.ret.ok
  /\ game.inventory = <<"bomb", "freeze">>
  /\ game.nextQueue = <<"L", "J", "Z">>

(* The lock events of a call that report cleared rows with the special      *)
(* multiplier applied.                                                      *)
SpecialClears(op) ==
  SelectSeq(LocksOf(op), LAMBDA e : e.linesCleared > 0 /\ e.specialMultiplier)

(* C26: the inventory never holds more than 3 items. It grows only in a     *)
(* tick whose lock cleared at least one row with the special multiplier     *)
(* applied; such a lock appends exactly one item (of the four types) when   *)
(* the inventory holds fewer than 3 and leaves it as it is when it holds 3. *)
C26_ItemsOnlyFromSpecialClears ==
  [][/\ Len(game'.inventory) <= ITEM_MAX_SLOTS
     /\ Len(game'.inventory) > Len(game.inventory) => SpecialClears(lastOp') # <<>>
     /\ SpecialClears(lastOp') # <<>> =>
          /\ Len(SpecialClears(lastOp')) = 1
          /\ IF Len(game.inventory) >= ITEM_MAX_SLOTS
             THEN game'.inventory = game.inventory
             ELSE \E k \in 1..Len(ITEM_TYPES) :
                    game'.inventory = Append(game.inventory, ITEM_TYPES[k])]_vars

(* A lock cleared a row with the special multiplier while three items were  *)
(* held: the three items are still the inventory.                           *)
C26_Witness ==
  /\ steps = 1 /\ SpecialClears(lastOp) # <<>>
  /\ game.inventory = <<"freeze", "freeze", "boost">>

IsPrefixOf(a, b) == Len(a) <= Len(b) /\ SubSeq(b, 1, Len(a)) = a

(* The events a tick returned beyond those that were pending before it. *)
OwnEvents(pending, events) == SubSeq(events, Len(pending) + 1, Len(events))

(* C27: a call other than tick and reset only appends to the pending        *)
(* events. A tick returns the events that were pending before it, in their  *)
(* order, followed by the events of its own step (a lock event when it      *)
(* wrote a piece into the board, a game-over event when it ended the game), *)
(* and leaves no event pending, so that no event is returned by two ticks   *)
(* and none is lost.                                                        *)
C27_EventsReturnedOnce ==
  [][/\ lastOp'.name \notin {"tick", "reset"} =>
          IsPrefixOf(game.pendingEvents, game'.pendingEvents)
     /\ lastOp'.name = "tick" =>
          /\ IsPrefixOf(game.pendingEvents, lastOp'.ret.events)
          /\ game'.pendingEvents = <<>>
          /\ game'.board # game.board =>
               EventsOf(OwnEvents(game.pendingEvents, lastOp'.ret.events), "lock") # <<>>
          /\ (game'.isGameOver /\ ~game.isGameOver) =>
               EventsOf(OwnEvents(game.pendingEvents, lastOp'.ret.events), "game-over") # <<>>]_vars

(* A tick returned the spawn event of the reset, the spawn event of a hold  *)
(* made since, and the lock and spawn events of its own step, in that      *)
(* order.                                                                   *)
C27_Witness ==
  /\ steps = MaxSteps /\ lastOp.name = "tick" /\ Len(lastOp.ret.events) = 4
  /\ lastOp.ret.events[1].type = "spawn" /\ lastOp.ret.events[2].type = "spawn"
  /\ lastOp.ret.events[3].type = "lock" /\ lastOp.ret.events[4].type = "spawn"
  /\ game.holdPiece # None /\ game.pendingEvents = <<>>

(* C28: in the events a tick returns, a lock event is followed by exactly   *)
(* one event, the last of the list: a spawn event, or a game-over event     *)
(* with isGameOver true and no active piece; a tick returns at most one     *)
(* game-over event.                                                         *)
C28_LockThenSpawnOrGameOver ==
  [][lastOp'.name = "tick" =>
       /\ \A k \in 1..Len(lastOp'.ret.events) :
            lastOp'.ret.events[k].type = "lock" =>
              /\ Len(lastOp'.ret.events) = k + 1
              /\ \/ lastOp'.ret.events[k + 1].type = "spawn"
                 \/ /\ lastOp'.ret.events[k + 1].type = "game-over"
                    /\ game'.isGameOver /\ game'.activePiece = None
       /\ Len(EventsOf(lastOp'.ret.events, "game-over")) <= 1]_vars

(* C29: after reset(), whatever the game was (paused and over included):    *)
(* the board is empty, score 0, linesCleared 0, level 1, combo and maxCombo *)
(* 0, nothing held and hold enabled, the inventory empty, both effects 0,   *)
(* not paused, not over, soft drop off, the lock timer null, the active     *)
(* piece at its spawn position with rotation 0, and the pending events are  *)
(* exactly the spawn event of that piece.                                   *)
C29_ResetReinitializes ==
  [][lastOp'.name = "reset" =>
       /\ \A r \in 1..BOARD_TOTAL_HEIGHT : isRowEmpty(game'.board[r])
       /\ game'.score = 0 /\ game'.linesCleared = 0 /\ game'.level = 1
       /\ game'.combo = 0 /\ game'.maxCombo = 0
       /\ game'.holdPiece = None /\ ~game'.holdUsed
       /\ game'.inventory = <<>>
       /\ game'.activeEffects.freeze = 0 /\ game'.activeEffects.boost = 0
       /\ ~game'.isPaused /\ ~game'.isGameOver /\ ~game'.softDropActive
       /\ game'.lockTimerMs = None
       /\ game'.activePiece # None
       /\ AtSpawn(game'.activePiece[1], game'.activePiece[1].type)
       /\ Len(game'.pendingEvents) = 1
       /\ game'.pendingEvents[1].type = "spawn"
       /\ game'.pendingEvents[1].piece = game'.activePiece]_vars

(* A reset was the third call on a game: one spawn event is pending. *)
C29_Witness ==
  /\ steps = MaxSteps /\ lastOp.name = "reset"
  /\ Len(game.pendingEvents) = 1 /\ game.activePiece # None
  /\ game.score = 0 /\ ~game.isGameOver /\ ~game.isPaused

Min(a, b) == IF a <= b THEN a ELSE b

(* C30: the remaining times of freeze and boost are never negative. A tick  *)
(* of a game that is neither paused nor over lowers each by the smaller of  *)
(* the time remaining and the time passed; a tick of a paused or finished   *)
(* game leaves them as they are. useItem with a freeze (boost) sets the     *)
(* remaining time of freeze (boost) to 10 s (12 s) whatever was left, and   *)
(* nothing but such a useItem raises a remaining time.                      *)
C30_EffectsDecay ==
  [][/\ \A key \in DOMAIN game'.activeEffects : game'.activeEffects[key] >= 0
     /\ lastOp'.name = "tick" =>
          \A key \in DOMAIN game.activeEffects :
            game'.activeEffects[key] =
              IF game.isPaused \/ game.isGameOver THEN game.activeEffects[key]
              ELSE game.activeEffects[key]
                     - Min(game.activeEffects[key], lastOp'.arg * 250)
     /\ \A key \in DOMAIN game.activeEffects :
          \/ /\ lastOp'.name = "useItem" /\ lastOp'.ret.ok
             /\ game.inventory[lastOp'.arg + 1] = key
             /\ game'.activeEffects[key] = EFFECT_DURATIONS[key]
          \/ game'.activeEffects[key] <= game.activeEffects[key]]_vars

(* A tick of half a second took the last quarter second of a freeze. *)
C30_Witness ==
  /\ steps = 1 /\ lastOp.name = "tick" /\ lastOp.arg = 2
  /\ game.activeEffects.freeze = 0
  /\ Len(game.inventory) = ITEM_MAX_SLOTS /\ game.inventory[1] = "boost"

(***************************************************************************)
(* The objects behind the Game: what getState() hands out is a value whose *)
(* parts are objects of the JavaScript heap. An object is modelled by its  *)
(* primitive fields (strs, ints, flags; for an array of primitives its     *)
(* elements) and its references (refs; for an array of objects its         *)
(* elements); a reference is the index of an object in the heap, 0 is      *)
(* null.                                                                   *)
(***************************************************************************)
Obj(tag, strs, ints, flags, refs) ==
  [tag |-> tag, strs |-> strs, ints |-> ints, flags |-> flags, refs |-> refs]

PointObj(p) == Obj("point", <<>>, <<p.x, p.y>>, <<>>, <<>>)

CellObj(cell) == Obj("cell", <<cell.type>>, <<>>, <<cell.isSpecial>>, <<>>)

TypeIndex(type) == CHOOSE i \in 1..Len(PIECE_TYPES) : PIECE_TYPES[i] = type

(* TETROMINO_SHAPES as it lies in the heap: for every type and rotation the *)
(* array of the blocks followed by its four Point objects.                  *)
ShapeAddr(type, rotation) == ((TypeIndex(type) - 1) * 4 + rotation) * 5 + 1

StaticHeap ==
  [k \in 1..(Len(PIECE_TYPES) * 4 * 5) |->
     IF (k - 1) % 5 = 0
     THEN Obj("array", <<>>, <<>>, <<>>, [j \in 1..4 |-> k + j])
     ELSE PointObj(TETROMINO_SHAPES[PIECE_TYPES[((k - 1) \div 5) \div 4 + 1]]
                                   [(((k - 1) \div 5) % 4) + 1][(k - 1) % 5])]

DerefPoint(h, a) == P(h[a].ints[1], h[a].ints[2])

DerefPoints(h, a) == [i \in 1..Len(h[a].refs) |-> DerefPoint(h, h[a].refs[i])]

DerefShapes(h) ==
  [type \in PieceTypeSet |-> [r \in 1..4 |-> DerefPoints(h, ShapeAddr(type, r - 1))]]

(* The number of occupied cells of a grid up to (y, x) in reading order. *)
FilledUpTo(grid, y, x) ==
  Cardinality({ k \in 1..((y - 1) * Len(grid[1]) + x) :
                  grid[(k - 1) \div Len(grid[1]) + 1][((k - 1) % Len(grid[1])) + 1] # NullCell })

(* A grid built in the heap: one object per occupied cell, one array per    *)
(* row, and the array of the rows, whose address is returned.               *)
AllocGrid(h, grid) ==
  LET w == Len(grid[1])
      n == FilledUpTo(grid, Len(grid), w)
      at == SelectSeq([k \in 1..(Len(grid) * w) |-> k],
                      LAMBDA k : grid[(k - 1) \div w + 1][((k - 1) % w) + 1] # NullCell)
      cells == [i \in 1..n |-> CellObj(grid[(at[i] - 1) \div w + 1][((at[i] - 1) % w) + 1])]
      rows == [y \in 1..Len(grid) |->
                 Obj("row", <<>>, <<>>, <<>>,
                     [x \in 1..Len(grid[y]) |->
                        IF grid[y][x] = NullCell THEN 0
                        ELSE Len(h) + FilledUpTo(grid, y, x)])]
  IN [ h |-> h \o cells \o rows
               \o <<Obj("grid", <<>>, <<>>, <<>>, [y \in 1..Len(grid) |-> Len(h) + n + y])>>,
       a |-> Len(h) + n + Len(grid) + 1 ]

DerefCell(h, a) ==
  IF a = 0 THEN NullCell ELSE [type |-> h[a].strs[1], isSpecial |-> h[a].flags[1]]

DerefGrid(h, a) ==
  [y \in 1..Len(h[a].refs) |->
     [x \in 1..Len(h[h[a].refs[y]].refs) |-> DerefCell(h, h[h[a].refs[y]].refs[x])]]

(* Board.snapshot: grid.map(row => row.map(cell => cell ? {...cell} : null)) *)
(* builds new arrays and new cell objects with the fields of the old ones.   *)
snapshot(h, a) == AllocGrid(h, DerefGrid(h, a))

(* An ActivePiece in the heap: its position is an object of its own, its   *)
(* blocks are the array of TETROMINO_SHAPES (createActivePiece, movePiece). *)
AllocPiece(h, piece) ==
  [ h |-> h \o <<PointObj(piece.position),
                 Obj("piece", <<piece.type>>,
                     <<piece.rotation,
                       IF piece.specialBlockIndex = None THEN -1
                       ELSE piece.specialBlockIndex[1]>>,
                     <<piece.isSpecial>>,
                     <<Len(h) + 1, ShapeAddr(piece.type, piece.rotation)>>)>>,
    a |-> Len(h) + 2 ]

DerefPiece(h, a) ==
  IF a = 0 THEN None
  ELSE Some([ type |-> h[a].strs[1], rotation |-> h[a].ints[1],
              position |-> DerefPoint(h, h[a].refs[1]),
              blocks |-> DerefPoints(h, h[a].refs[2]),
              isSpecial |-> h[a].flags[1],
              specialBlockIndex |-> IF h[a].ints[2] < 0 THEN None ELSE Some(h[a].ints[2]) ])

DerefHeld(h, a) ==
  IF a = 0 THEN None ELSE Some([type |-> h[a].strs[1], isSpecial |-> h[a].flags[1]])

(* The objects of a Game whose fields have the values of g, and the         *)
(* references the Game holds to them.                                       *)
Load(g) ==
  LET b == AllocGrid(StaticHeap, g.board)
      p == IF g.activePiece = None THEN [h |-> b.h, a |-> 0]
           ELSE AllocPiece(b.h, g.activePiece[1])
      hp == IF g.holdPiece = None THEN p.h
            ELSE Append(p.h, Obj("held", <<g.holdPiece[1].type>>, <<>>,
                                 <<g.holdPiece[1].isSpecial>>, <<>>))
      rest == <<Obj("strings", g.nextQueue, <<>>, <<>>, <<>>),
                Obj("strings", g.inventory, <<>>, <<>>, <<>>),
                Obj("effects", <<>>, <<g.activeEffects.freeze, g.activeEffects.boost>>,
                    <<>>, <<>>)>>
  IN [ heap |-> hp \o rest,
       roots |-> [ board |-> b.a, activePiece |-> p.a,
                   holdPiece |-> IF g.holdPiece = None THEN 0 ELSE Len(hp),
                   nextQueue |-> Len(hp) + 1, inventory |-> Len(hp) + 2,
                   activeEffects |-> Len(hp) + 3 ] ]

(* Game.getState on the heap: the heap with the objects it creates and the  *)
(* value it returns, references for objects.                                *)
HeapGetState(h, roots, g) ==
  LET b == snapshot(h, roots.board)
      queue == h[roots.nextQueue].strs
      made == <<Obj("strings",
                    SubSeq(queue, 1, IF Len(queue) < previewCount THEN Len(queue)
                                     ELSE previewCount), <<>>, <<>>, <<>>),
                Obj("strings", h[roots.inventory].strs, <<>>, <<>>, <<>>),
                Obj("effects", <<>>, h[roots.activeEffects].ints, <<>>, <<>>),
                Obj("stats", <<>>,
                    <<g.score, g.linesCleared, g.level, g.combo, g.maxCombo>>,
                    <<>>, <<>>)>>
  IN [ h |-> b.h \o made,
       view |-> [ board |-> b.a, activePiece |-> roots.activePiece,
                  nextQueue |-> Len(b.h) + 1, holdPiece |-> roots.holdPiece,
                  inventory |-> Len(b.h) + 2, effects |-> Len(b.h) + 3,
                  stats |-> Len(b.h) + 4,
                  isPaused |-> g.isPaused, isGameOver |-> g.isGameOver ] ]

(* What a caller reads from a value getState returned. *)
DerefView(h, v) ==
  [ board |-> DerefGrid(h, v.board), activePiece |-> DerefPiece(h, v.activePiece),
    nextQueue |-> h[v.nextQueue].strs, holdPiece |-> DerefHeld(h, v.holdPiece),
    inventory |-> h[v.inventory].strs,
    effects |-> [freeze |-> h[v.effects].ints[1], boost |-> h[v.effects].ints[2]],
    stats |-> [ score |-> h[v.stats].ints[1], linesCleared |-> h[v.stats].ints[2],
                level |-> h[v.stats].ints[3], combo |-> h[v.stats].ints[4],
                maxCombo |-> h[v.stats].ints[5] ],
    isPaused |-> v.isPaused, isGameOver |-> v.isGameOver ]

RefsOf(h, S) == UNION {{h[a].refs[i] : i \in 1..Len(h[a].refs)} : a \in S} \ {0}

(* The objects a caller reaches from a returned value. *)
Reach(h, v) ==
  LET top == {v.board, v.activePiece, v.nextQueue, v.holdPiece, v.inventory,
              v.effects, v.stats} \ {0}
      second == RefsOf(h, top)
  IN top \cup second \cup RefsOf(h, second)

(* The assignments a caller can make to one object: another number, piece   *)
(* type or boolean in a field or element, null in place of a cell, and the  *)
(* removal of the last element of an array.                                 *)
Writes(o) ==
  {[o EXCEPT !.ints[i] = @ + 1] : i \in 1..Len(o.ints)}
    \cup {[o EXCEPT !.strs[i] = IF @ = "I" THEN "O" ELSE "I"] : i \in 1..Len(o.strs)}
    \cup {[o EXCEPT !.flags[i] = ~@] : i \in 1..Len(o.flags)}
    \cup {[o EXCEPT !.refs[i] = 0] : i \in {j \in 1..Len(o.refs) : o.tag = "row" /\ o.refs[j] # 0}}
    \cup {[o EXCEPT !.refs = SubSeq(@, 1, Len(@) - 1)] :
            i \in {j \in {1} : o.tag \in {"array", "row", "grid"} /\ Len(o.refs) > 0}}
    \cup {[o EXCEPT !.strs = SubSeq(@, 1, Len(@) - 1)] :
            i \in {j \in {1} : o.tag = "strings" /\ Len(o.strs) > 0}}

AliasStarts == {StartHeld, StartItemsMixed}

InitAlias ==
  /\ \E start \in AliasStarts :
       /\ game = start.game
       /\ \E l \in {Load(start.game)} :
            probe = [ kind |-> "alias", heap |-> l.heap, roots |-> l.roots,
                      views |-> {}, written |-> FALSE ]
  /\ lastOp = NoOp
  /\ steps = 0

(* getState(): the caller keeps the value returned. *)
AliasGetState ==
  /\ probe.kind = "alias" /\ steps < MaxSteps
  /\ \E r \in {HeapGetState(probe.heap, probe.roots, game)} :
       probe' = [probe EXCEPT !.heap = r.h, !.views = @ \cup {r.view}]
  /\ lastOp' = [name |-> "getState", arg |-> 0, dir |-> "", ret |-> Ret(TRUE, 0, <<>>, None)]
  /\ steps' = steps + 1
  /\ UNCHANGED game

(* The caller assigns to an object it reaches from a value it was given. *)
AliasWrite ==
  /\ probe.kind = "alias" /\ steps < MaxSteps /\ ~probe.written
  /\ \E v \in probe.views : \E a \in Reach(probe.heap, v) :
       \E w \in Writes(probe.heap[a]) :
         probe' = [probe EXCEPT !.heap[a] = w, !.written = TRUE]
  /\ lastOp' = [name |-> "write", arg |-> 0, dir |-> "", ret |-> Ret(TRUE, 0, <<>>, None)]
  /\ steps' = steps + 1
  /\ UNCHANGED game

NextAlias == AliasGetState \/ AliasWrite

SpecAlias == InitAlias /\ [][NextAlias]_vars

(* C31: whatever a caller assigns to the objects it reaches from the values *)
(* getState() returned, the next getState() returns what the fields of the  *)
(* Game amount to, and the static shape tables are what they were.          *)
C31_SnapshotIsolated ==
  probe.kind = "alias" =>
    /\ \E r \in {HeapGetState(probe.heap, probe.roots, game)} :
         DerefView(r.h, r.view) = getState(game)
    /\ DerefShapes(probe.heap) = TETROMINO_SHAPES

(* C32: while isPaused is true, moveHorizontal, rotate, softDropStep,       *)
(* hardDrop, hold and useItem leave the active piece, the board, the held   *)
(* piece, the inventory, the effects and the score as they were.            *)
C32_PausedIgnoresActions ==
  [][(/\ game.isPaused
      /\ lastOp'.name \in {"moveHorizontal", "rotate", "softDropStep", "hardDrop",
                           "hold", "useItem"}) =>
       /\ game'.activePiece = game.activePiece /\ game'.board = game.board
       /\ game'.holdPiece = game.holdPiece /\ game'.inventory = game.inventory
       /\ game'.activeEffects = game.activeEffects
       /\ game'.score = game.score]_vars

(* C33: the active piece, when there is one, lies inside the walls and      *)
(* above the floor, and none of its blocks is on an occupied cell of the    *)
(* board.                                                                   *)
C33_ActivePieceNeverCollides ==
  game.activePiece # None =>
    \A i \in 1..Len(game.activePiece[1].blocks) :
      \E b \in {P(game.activePiece[1].position.x + game.activePiece[1].blocks[i].x,
                  game.activePiece[1].position.y + game.activePiece[1].blocks[i].y)} :
        /\ 0 <= b.x /\ b.x < BOARD_WIDTH /\ b.y < BOARD_TOTAL_HEIGHT
        /\ b.y >= 0 => game.board[b.y + 1][b.x + 1] = NullCell

(* A piece resting on a ledge with its lock delay running: an I lies on the *)
(* floor in columns 3 to 6; an O was moved to columns 6 and 7 and           *)
(* hard-dropped onto its end, soft drop was engaged, and a tick of 0.25 s   *)
(* has passed.                                                              *)
ScriptLedge ==
  <<OpReset(<<1, 2, 3, 2, 1, 0>>, FALSE, 0)>>
    \o Place(0, 0, IdentityJs)
    \o <<OpMove(1), OpHardDrop, Op("setSoftDrop", 1, "", Rnd0), OpTick(1)>>

StartLedge == After(ScriptLedge)

InitLedge ==
  /\ game = StartLedge.game /\ lastOp = StartLedge.lastOp
  /\ steps = 0
  /\ probe = NoProbe

SpecLedge == InitLedge /\ [][Next]_vars

(* C34: a piece that a tick's gravity has moved and that then rests is not  *)
(* locked by that tick, and its lock timer is 0 after it; a piece that a    *)
(* softDropStep has moved and that then rests has a lock timer of null or   *)
(* 0: the delay of an earlier rest does not count for the new one.          *)
C34_LockDelayOfCurrentRest ==
  [][/\ (lastOp'.name = "tick" /\ ~game.isPaused /\ ~game.isGameOver
           /\ game.activePiece # None) =>
          \A rnd \in TickDraws(game, lastOp'.arg, game') :
            (/\ TickMoment(game, lastOp'.arg, rnd).activePiece # game.activePiece
             /\ Resting(TickMoment(game, lastOp'.arg, rnd))) =>
               /\ LocksOf(lastOp') = <<>>
               /\ game'.lockTimerMs = Some(0)
     /\ (lastOp'.name = "softDropStep" /\ lastOp'.ret.ok /\ Resting(game')) =>
          game'.lockTimerMs \in {None, Some(0)}]_vars

(* C35: once the queue has been filled (reset() fills it and no call        *)
(* empties it again), after every call there is no active piece exactly     *)
(* when the game is over.                                                   *)
C35_PieceIffNotOver ==
  /\ lastOp.name = "reset" => game.nextQueue # <<>>
  /\ game.nextQueue # <<>> => (game.activePiece = None <=> game.isGameOver)

(* A hold that found its swapped piece blocked has ended the game. *)
C35_Witness ==
  /\ lastOp.name = "hold" /\ ~lastOp.ret.ok
  /\ game.holdPiece # None /\ game.holdUsed
  /\ game.isGameOver /\ game.activePiece = None

(* C36: a running tick moves the active piece by gravity at most one row    *)
(* down and not otherwise. When it moved, the fall accumulator is below one *)
(* row afterwards; when a row was due and the piece did not move, the piece *)
(* was resting and its lock timer is running afterwards (from 0 if it was   *)
(* null).                                                                   *)
C36_OneRowPerTick ==
  [][(lastOp'.name = "tick" /\ ~game.isPaused /\ ~game.isGameOver
        /\ game.activePiece # None) =>
       \A rnd \in TickDraws(game, lastOp'.arg, game') :
         LET before == game.activePiece[1]
             due == game.fallAccumulator + gravityStep(
                      updateSoftDropBonus(updateActiveEffects(game, lastOp'.arg * 250),
                                          lastOp'.arg * 250), lastOp'.arg)
             m == TickMoment(game, lastOp'.arg, rnd)
         IN /\ m.activePiece \in {Some(before), Some(movePiece(before, P(0, 1)))}
            /\ LocksOf(lastOp') = <<>> => game'.activePiece = m.activePiece
            /\ m.activePiece # Some(before) =>
                 /\ due >= FallOne
                 /\ m.fallAccumulator < FallOne
                 /\ LocksOf(lastOp') = <<>> => game'.fallAccumulator < FallOne
            /\ (m.activePiece = Some(before) /\ due >= FallOne) =>
                 /\ Resting(game)
                 /\ m.lockTimerMs # None
                 /\ game.lockTimerMs = None => m.lockTimerMs = Some(0)
            /\ due < FallOne => m.activePiece = Some(before)]_vars

(* A tick whose fall was worth two rows or more has moved a piece with room *)
(* below it by one row.                                                     *)
C36_Witness ==
  /\ lastOp.name = "tick" /\ lastOp.arg = 2 /\ steps = MaxSteps
  /\ game.softDropActive /\ game.activePiece # None /\ ~Resting(game)
  /\ game.fallAccumulator < 0
  /\ game.activePiece[1].position.y = SPAWN_POSITION[game.activePiece[1].type].y + 1

(* ---- Ticks only: the frame loop calls tick and nothing else ---- *)

(* The least and the greatest time between two frames, in quarter seconds. *)
FrameDeltas == {1, 2}

(* A freeze is used and the resting piece locks: the next piece starts its  *)
(* fall at the top with 9.5 s of freeze left.                               *)
StartFrozen ==
  CHOOSE end \in {AfterFrom(start, <<OpUseItem(0), OpTick(2)>>) : start \in {StartItemsFreeze}} : TRUE

(* A freeze is used while the piece rests on the stack. *)
StartFrozenResting ==
  CHOOSE end \in {AfterFrom(start, <<OpUseItem(0)>>) : start \in {StartItemsFreeze}} : TRUE

LiveStarts == {StartFresh, StartFrozen, StartFrozenResting, StartLedge, StartTopA}

(* What the frame loop has reached: the Game, the last call and whether a   *)
(* tick of the loop has returned a lock event.                              *)
LiveNode(g, op, locked) == [game |-> g, lastOp |-> op, locked |-> locked]

(* What the loop has reached after a frame whose tick(dq / 4) returned r. *)
LiveAfter(dq, r) ==
  LiveNode(r.g, [name |-> "tick", arg |-> dq, dir |-> "", ret |-> r.ret],
           EventsOf(r.ret.events, "lock") # <<>>)

(* One frame from n: handleFrame calls tick(deltaSeconds) with the time     *)
(* since the last frame. A behaviour is followed until the piece that was   *)
(* active at its start has locked.                                          *)
LiveFrames(n) ==
  IF n.locked THEN {}
  ELSE UNION {{LiveAfter(dq, Do(n.game, Op("tick", dq, "", rnd)))
               : rnd \in RndsFor(n.game, "tick", dq, "")} : dq \in FrameDeltas}

(* The frames of every behaviour of the loop from the nodes of frontier, as *)
(* pairs <<node, node after one frame>>; found are the frames from the last *)
(* frontier.                                                                *)
RECURSIVE LiveClosure(_, _, _)
RECURSIVE LiveGrow(_, _, _)
LiveGrow(edges, seen, found) ==
  LiveClosure(edges \cup found, seen \cup {e[2] : e \in found},
              {e[2] : e \in found} \ seen)

LiveClosure(edges, seen, frontier) ==
  IF frontier = {} THEN edges
  ELSE LiveGrow(edges, seen, UNION {{<<n, t>> : t \in LiveFrames(n)} : n \in frontier})

LiveStartNodes == {LiveNode(start.game, start.lastOp, FALSE) : start \in LiveStarts}

LiveEdges == LiveClosure({}, LiveStartNodes, LiveStartNodes)

InitLive ==
  /\ \E start \in LiveStarts : game = start.game /\ lastOp = start.lastOp
  /\ steps = 0
  /\ probe = [kind |-> "live", locked |-> FALSE]

(* One frame of the loop. *)
LiveTick ==
  /\ probe.kind = "live"
  /\ \E e \in LiveEdges :
       /\ e[1] = LiveNode(game, lastOp, probe.locked)
       /\ game' = e[2].game
       /\ lastOp' = e[2].lastOp
       /\ probe' = [probe EXCEPT !.locked = e[2].locked]
  /\ UNCHANGED steps

NextLive == LiveTick

SpecLive == InitLive /\ [][NextLive]_vars /\ WF_vars(LiveTick)

(* C37: in a running game in which only tick is called, with at least a     *)
(* quarter second per tick, the active piece is eventually locked: a tick   *)
(* returns a lock event, with and without the freeze effect.                *)
C37_PieceEventuallyLocks ==
  (probe.kind = "live" /\ ~probe.locked /\ ~game.isPaused /\ ~game.isGameOver)
    ~> (probe.kind = "live" /\ probe.locked)

(* A tick of the frame loop has locked a piece while the freeze was active. *)
C37_Witness ==
  /\ probe.kind = "live" /\ probe.locked
  /\ lastOp.name = "tick" /\ LocksOf(lastOp) # <<>>
  /\ game.activeEffects.freeze > 0

(* C38: after every call the board has BOARD_TOTAL_HEIGHT rows of           *)
(* BOARD_WIDTH cells and no row of it is full.                              *)
C38_BoardShapeNoFullRow ==
  /\ Len(game.board) = BOARD_TOTAL_HEIGHT
  /\ \A r \in 1..Len(game.board) : Len(game.board[r]) = BOARD_WIDTH
  /\ \A r \in 1..Len(game.board) : \E x \in 1..BOARD_WIDTH : game.board[r][x] = NullCell

(* A lock has removed rows that were adjacent, the upper ones examined      *)
(* after the shift.                                                         *)
C38_Witness ==
  /\ lastOp.name = "tick" /\ LocksOf(lastOp) # <<>>
  /\ LocksOf(lastOp)[1].linesCleared >= 2
  /\ steps >= 1

(* ---- The order of the steps of a tick ---- *)

(* The game of ScriptComboOf with the boost used 11.25 s before the T is    *)
(* hard-dropped: 750 ms of boost are left when its lock delay starts.       *)
ScriptBoostEnding ==
  ScriptTripleOf(TRUE)
    \o <<OpTickDraw(2, IdentityJs, FALSE, 3, 3), OpUseItem(0), OpTick(45)>>
    \o Times(2, <<OpRotate("clockwise")>>) \o Times(2, <<OpMove(1)>>)
    \o <<OpHardDrop>>

StartBoostEnding == After(ScriptBoostEnding)

(* Soft drop from the reset on: 0.25 s and then 17 ticks of 0.5 s bring 850 *)
(* points, the hard drop 100; the soft-drop accumulator is at 0.25 s, so    *)
(* the next quarter second brings the score to 1000.                        *)
ScriptSpeedStep ==
  <<OpReset(IdentityJs, FALSE, 0), Op("setSoftDrop", 1, "", Rnd0), OpTick(1)>>
    \o Times(17, <<OpTick(2)>>) \o <<OpHardDrop>>

StartSpeedStep == After(ScriptSpeedStep)

OrderStarts == {StartBoostEnding, StartSpeedStep, StartItemsExpiring}

InitOrder ==
  /\ \E start \in OrderStarts : game = start.game /\ lastOp = start.lastOp
  /\ steps = 0
  /\ probe = NoProbe

SpecOrder == InitOrder /\ [][Next]_vars

(* What the effects and the score of g are once the decay and the soft-drop *)
(* bonus of a tick of dq quarter seconds have been applied.                 *)
AfterDecayAndBonus(g, dq) ==
  [g EXCEPT !.activeEffects =
              [key \in DOMAIN g.activeEffects |->
                 IF g.activeEffects[key] > dq * 250 THEN g.activeEffects[key] - dq * 250
                 ELSE 0],
            !.score = g.score + SoftDropAward(g, dq)]

(* C39: a running tick leaves the effects reduced by its time; a lock it    *)
(* performs that clears lines is doubled exactly when the boost so reduced  *)
(* is still > 0; the fall added by the tick is that of the rate taken from  *)
(* the freeze so reduced and from the score with the tick's soft-drop bonus *)
(* (seen in the accumulator of a piece that did not move, and in a move     *)
(* only when a row was due).                                                *)
C39_TickOrder ==
  [][(lastOp'.name = "tick" /\ ~game.isPaused /\ ~game.isGameOver) =>
       LET dq == lastOp'.arg
           post == AfterDecayAndBonus(game, dq)
           due == game.fallAccumulator + gravityStep(post, dq)
           locks == LocksOf(lastOp')
       IN /\ game'.activeEffects = post.activeEffects
          /\ \A i \in 1..Len(locks) :
               locks[i].linesCleared >= 1 =>
                 game'.score - post.score =
                   (BasePoints(locks[i].linesCleared)
                      * (IF locks[i].specialMultiplier THEN 2 ELSE 1)
                      + ComboBonus(game.combo + 1))
                   * (IF post.activeEffects.boost > 0 THEN 2 ELSE 1)
          /\ (game.activePiece # None /\ locks = <<>>) =>
               /\ game'.activePiece = game.activePiece => game'.fallAccumulator = due
               /\ game'.activePiece # game.activePiece => due >= FallOne]_vars

(* A lock that cleared a line in the tick in which the boost ran out. *)
C39_Witness ==
  /\ lastOp.name = "tick" /\ lastOp.arg = 2 /\ steps = 2
  /\ LocksOf(lastOp) # <<>> /\ LocksOf(lastOp)[1].linesCleared >= 1
  /\ game.activeEffects.boost = 0 /\ game.score = 2250

(* C40: moveHorizontal, rotate, softDropStep, setSoftDrop, hardDrop, hold   *)
(* and togglePause, useItem with an invalid slot or with an item other than *)
(* the bomb, and a tick that reports no lock leave every cell of the board  *)
(* as it was, whether they succeed or fail.                                 *)
C40_BoardChangedOnlyByLockBombReset ==
  [][/\ lastOp'.name \in {"moveHorizontal", "rotate", "softDropStep", "setSoftDrop",
                          "hardDrop", "hold", "togglePause"} =>
          game'.board = game.board
     /\ lastOp'.name = "useItem" =>
          \/ game'.board = game.board
          \/ /\ lastOp'.arg >= 0 /\ lastOp'.arg < Len(game.inventory)
             /\ game.inventory[lastOp'.arg + 1] = "bomb"
     /\ (lastOp'.name = "tick" /\ LocksOf(lastOp') = <<>>) =>
          game'.board = game.board]_vars

(* A shuffle has been used on a board that holds cells. *)
C40_Witness ==
  /\ lastOp.name = "useItem" /\ lastOp.arg = 1 /\ lastOp.ret.ok /\ steps = 1
  /\ game.inventory = <<"bomb">>
  /\ Cells(game.board) > 0

====
